---- MODULE Spec2Model ----
(***************************************************************************)
(* candive: ISO-TP segmenter / reassembler (src/src/diag/isotp.rs) and the *)
(* UDS block-transfer sessions (src/crates/candive/src/uds/client.rs).     *)
(*                                                                         *)
(* Rust slices and arrays are 0-indexed; TLA+ sequences are 1-indexed.     *)
(* At(s, i) reads the Rust index i of a sequence.                          *)
(***************************************************************************)
EXTENDS Integers, Sequences, FiniteSets, TLC

VARIABLES
    rx,        \* IsoTpRx: state, expected_len, buf, used, next_sn
    result,    \* what the last IsoTpRx call returned
    frame,     \* the frame handed to the last on_frame call
    pre,       \* the IsoTpRx as it was before the last call
    ncalls,    \* on_frame / reset calls made on rx by the driver
    tx,        \* IsoTpTx: data, offset, state, sn
    txret,     \* what the last IsoTpTx::next returned (<<>> is None)
    nframes,   \* frames IsoTpTx has produced so far
    pending,   \* frames produced and not yet fed to rx (<<>> or <<f>>)
    completed, \* Completed events rx has reported in this run
    sess,      \* the DownloadSession / UploadSession, if one was started
    wire,      \* the request the last session call put on the transport (<<>>: none)
    reply,     \* what the transport answered to it
    ret,       \* what the last session call returned
    acked,     \* blocks the device has acknowledged in this session
    op,        \* the last session call: its name
    arg,       \* its argument: the data of send_block, <<out.len()>> of read_block
    spre,      \* the session as it was before the last call
    reqs,      \* the requests the last call put on the transport, in order
    phase,     \* where the requests of the current session stand in their order
    it,        \* the LogEntryIterator: data, offset, current_kind
    items,     \* the entries it has yielded so far
    itret,     \* what its last next() returned
    dl,        \* download() of solodiag: its locals and the statement it is at
    callee,    \* the pure function last applied, by name
    input,     \* what it was applied to
    output     \* what it returned

isotpVars == <<rx, result, frame, pre, ncalls, tx, txret, nframes, pending, completed>>

udsVars == <<sess, wire, reply, ret, acked, op, arg, spre, reqs, phase>>

pureVars == <<callee, input, output>>

toolVars == <<it, items, itret, dl>>

vars == <<isotpVars, udsVars, pureVars, toolVars>>

----------------------------------------------------------------------------
(* Helpers *)

Min(a, b) == IF a <= b THEN a ELSE b

Max(a, b) == IF a >= b THEN a ELSE b

At(s, i) == s[i + 1]

\* s[from..to) of a Rust slice
Slice(s, from, to) == SubSeq(s, from + 1, to)

\* x.saturating_sub(y) on usize
SaturatingSub(x, y) == IF x >= y THEN x - y ELSE 0

Zeros(n) == [i \in 1..n |-> 0]

----------------------------------------------------------------------------
(* Program constants *)

\* buf: [u8; 1024]
BufLen == 1024

----------------------------------------------------------------------------
(* IsoTpPciType::from_u8: byte0 >> 4 *)

\* mutant: the Flow Control nibble is not known
from_u8_NoFlowControl(byte0) ==
    CASE byte0 \div 16 = 0 -> "Single"
      [] byte0 \div 16 = 1 -> "First"
      [] byte0 \div 16 = 2 -> "Consecutive"
      [] OTHER -> "Unknown"

from_u8(byte0) ==
    CASE byte0 \div 16 = 0 -> "Single"
      [] byte0 \div 16 = 1 -> "First"
      [] byte0 \div 16 = 2 -> "Consecutive"
      [] byte0 \div 16 = 3 -> "FlowControl"
      [] OTHER -> "Unknown"

----------------------------------------------------------------------------
(* Results of IsoTpRx::on_frame: Ok(IsoTpRxEvent) or Err(IsoTpRxError).    *)
(* One record shape for all of them; unused fields are 0 / "".             *)

Res(kind, n, e, g, what, pci) ==
    [kind |-> kind, n |-> n, expected |-> e, got |-> g, what |-> what, pci |-> pci]

EvNone == Res("None", 0, 0, 0, "", "")

EvFlowControlRequired == Res("FlowControlRequired", 0, 0, 0, "", "")

EvCompleted(n) == Res("Completed", n, 0, 0, "", "")

ErrLengthMismatch == Res("LengthMismatch", 0, 0, 0, "", "")

ErrUnknownPciType == Res("UnknownPciType", 0, 0, 0, "", "")

ErrOverflow == Res("Overflow", 0, 0, 0, "", "")

ErrSequenceError(e, g) == Res("SequenceError", 0, e, g, "", "")

ErrUnexpectedFrameType(what, pci) == Res("UnexpectedFrameType", 0, 0, 0, what, pci)

\* no call made yet / the call was reset(), which returns nothing
NoResult == Res("-", 0, 0, 0, "", "")

ErrKinds == {"LengthMismatch", "UnknownPciType", "Overflow", "SequenceError",
             "UnexpectedFrameType"}

IsErr(r) == r.kind \in ErrKinds

----------------------------------------------------------------------------
(* IsoTpRx.  buf is the [u8; 1024] array, kept as its written prefix: the  *)
(* bytes past Len(buf) are the zeros of new().  Every write starts at      *)
(* `used`, which never exceeds the written prefix.                         *)

IsoTpRxNew ==
    [state |-> "Idle", expected_len |-> <<>>, buf |-> <<>>, used |-> 0, next_sn |-> 0]

\* buf[at..at+Len(bytes)].copy_from_slice(bytes)
BufWrite(buf, at, bytes) ==
    LET head == IF at <= Len(buf) THEN SubSeq(buf, 1, at)
                ELSE buf \o Zeros(at - Len(buf))
        tail == SubSeq(buf, at + Len(bytes) + 1, Len(buf))
    IN  head \o bytes \o tail

\* mutant: reset leaves used as it is
reset_KeepsUsed(r) ==
    [r EXCEPT !.state = "Idle", !.expected_len = <<>>, !.next_sn = 0]

\* reset(): the buffer content stays as it is
reset(r) ==
    [r EXCEPT !.state = "Idle", !.expected_len = <<>>, !.used = 0, !.next_sn = 0]

\* payload(): &buf[..used]
payload(r) ==
    IF r.used <= Len(r.buf) THEN SubSeq(r.buf, 1, r.used)
    ELSE r.buf \o Zeros(r.used - Len(r.buf))

\* mutant: a zero length nibble passes
SfLenBad_ZeroPasses(sf_len) == sf_len > 7

\* the length nibble a Single Frame may not carry
SfLenBad(sf_len) == sf_len = 0 \/ sf_len > 7

handle_single(r, f) ==
    LET sf_len == At(f.data, 0) % 16
    IN  IF SfLenBad(sf_len) THEN [rx |-> r, ret |-> ErrLengthMismatch]
        ELSE IF f.len # 1 + sf_len THEN [rx |-> r, ret |-> ErrLengthMismatch]
        ELSE IF sf_len > BufLen THEN [rx |-> r, ret |-> ErrOverflow]
        ELSE LET r1 == reset(r)
                 r2 == [r1 EXCEPT !.buf = BufWrite(r1.buf, 0, Slice(f.data, 1, 1 + sf_len)),
                                  !.used = sf_len]
             IN  [rx |-> r2, ret |-> EvCompleted(r2.used)]

\* mutant: the two header bytes are counted as data
FirstCopyLen_CountsHeader(available, total_len) == Min(available + 2, Min(total_len, 6))

\* copy_len of a First Frame: it can carry up to 6 data bytes
FirstCopyLen(available, total_len) == Min(available, Min(total_len, 6))

\* Result<Option<usize>, IsoTpRxError>: ret is the error, or "Some"/"NoneOpt" in kind
handle_first(r, f) ==
    IF f.len < 2 THEN [rx |-> r, ret |-> ErrLengthMismatch]
    ELSE
    LET hi == At(f.data, 0) % 16
        lo == At(f.data, 1)
        total_len == hi * 256 + lo
    IN  IF total_len = 0 THEN [rx |-> r, ret |-> ErrLengthMismatch]
        ELSE IF total_len > BufLen THEN [rx |-> r, ret |-> ErrOverflow]
        ELSE
        LET header_bytes == 2
            available == SaturatingSub(f.len, header_bytes)
            copy_len == FirstCopyLen(available, total_len)
            r1 == reset(r)
            r2 == [r1 EXCEPT
                     !.buf = BufWrite(r1.buf, 0,
                                 Slice(f.data, header_bytes, header_bytes + copy_len)),
                     !.used = copy_len,
                     !.expected_len = <<total_len>>,
                     !.state = "Receiving",
                     !.next_sn = 1]
        IN  IF r2.used = total_len
            THEN [rx |-> [r2 EXCEPT !.state = "Idle", !.expected_len = <<>>],
                  ret |-> Res("Some", r2.used, 0, 0, "", "")]
            ELSE [rx |-> r2, ret |-> Res("NoneOpt", 0, 0, 0, "", "")]

\* mutant: the sequence number does not wrap
RxNextSn_NoWrap(sn) == sn + 1

\* mutant: the sequence number wraps one late
RxNextSn_WrapsLate(sn) == (sn + 1) % 17

\* mutant: no sequence check
SnMismatch_Never(sn, next_sn) == FALSE

\* mutant: the copy is not limited to what the message lacks
CfCopyLen_NoClamp(payload_len, remaining) == payload_len

\* the sequence number after sn: (sn + 1) & 0x0F
RxNextSn(sn) == (sn + 1) % 16

\* the sequence check of a Consecutive Frame
SnMismatch(sn, next_sn) == sn # next_sn

\* copy_len of a Consecutive Frame
CfCopyLen(payload_len, remaining) == Min(payload_len, remaining)

handle_consecutive(r, f) ==
    IF r.state # "Receiving"
    THEN [rx |-> r, ret |-> ErrUnexpectedFrameType("First Frame before ConsecutiveFrame",
                                                    "Consecutive")]
    ELSE IF r.expected_len = <<>>
    THEN [rx |-> r, ret |-> ErrUnexpectedFrameType("First Frame before ConsecutiveFrame",
                                                    "Consecutive")]
    ELSE
    LET expected_len == r.expected_len[1]
        sn == At(f.data, 0) % 16
    IN  IF SnMismatch(sn, r.next_sn) THEN [rx |-> r, ret |-> ErrSequenceError(r.next_sn, sn)]
        ELSE
        LET header_bytes == 1
            payload_len == SaturatingSub(f.len, header_bytes)
        IN  IF r.used >= expected_len THEN [rx |-> r, ret |-> ErrOverflow]
            ELSE
            LET remaining == expected_len - r.used
                copy_len == CfCopyLen(payload_len, remaining)
            IN  IF r.used + copy_len > BufLen THEN [rx |-> r, ret |-> ErrOverflow]
                ELSE
                LET r1 == [r EXCEPT
                             !.buf = BufWrite(r.buf, r.used,
                                        Slice(f.data, header_bytes, header_bytes + copy_len)),
                             !.used = r.used + copy_len,
                             !.next_sn = RxNextSn(r.next_sn)]
                IN  IF r1.used > expected_len THEN [rx |-> r1, ret |-> ErrOverflow]
                    ELSE IF r1.used = expected_len
                    THEN [rx |-> [r1 EXCEPT !.state = "Idle", !.expected_len = <<>>],
                          ret |-> EvCompleted(r1.used)]
                    ELSE [rx |-> r1, ret |-> EvNone]

\* mutant: an error resets the reassembler
on_frame_ResetsOnError(r, f) ==
    LET o ==
            IF f.len = 0 \/ f.len > 8 THEN [rx |-> r, ret |-> ErrLengthMismatch]
            ELSE
            LET pci_type == from_u8(At(f.data, 0))
            IN  CASE pci_type = "Unknown" -> [rx |-> r, ret |-> ErrUnknownPciType]
                  [] pci_type = "Single" -> handle_single(r, f)
                  [] pci_type = "First" ->
                        LET h == handle_first(r, f)
                        IN  IF IsErr(h.ret) THEN h
                            ELSE [rx |-> h.rx, ret |-> EvFlowControlRequired]
                  [] pci_type = "Consecutive" -> handle_consecutive(r, f)
                  [] pci_type = "FlowControl" ->
                        [rx |-> r, ret |-> ErrUnexpectedFrameType("Single/First/Consecutive",
                                                                  "FlowControl")]
    IN  IF IsErr(o.ret) THEN [rx |-> reset(r), ret |-> o.ret] ELSE o

on_frame(r, f) ==
    IF f.len = 0 \/ f.len > 8 THEN [rx |-> r, ret |-> ErrLengthMismatch]
    ELSE
    LET pci_type == from_u8(At(f.data, 0))
    IN  CASE pci_type = "Unknown" -> [rx |-> r, ret |-> ErrUnknownPciType]
          [] pci_type = "Single" -> handle_single(r, f)
          [] pci_type = "First" ->
                LET h == handle_first(r, f)
                IN  IF IsErr(h.ret) THEN h
                    ELSE [rx |-> h.rx, ret |-> EvFlowControlRequired]
          [] pci_type = "Consecutive" -> handle_consecutive(r, f)
          [] pci_type = "FlowControl" ->
                [rx |-> r, ret |-> ErrUnexpectedFrameType("Single/First/Consecutive",
                                                          "FlowControl")]

make_flow_control_cts(block_size, st_min) ==
    [len |-> 3, data |-> <<48, block_size, st_min, 0, 0, 0, 0, 0>>]

----------------------------------------------------------------------------
(* IsoTpTx: the segmenter, an Iterator over the frames of `data`.          *)

IsoTpTxNew(data) == [data |-> data, offset |-> 0, state |-> "NotStarted", sn |-> 0]

\* IsoTpFrame { len, data: buf } where buf = [0u8; 8] with `bytes` copied to buf[0..]
IsoTpFrame(len, bytes) == [len |-> len, data |-> bytes \o Zeros(8 - Len(bytes))]

ZeroFrame == [len |-> 0, data |-> Zeros(8)]

\* Option<IsoTpFrame>
NoneFrame == [kind |-> "None", frame |-> ZeroFrame]

SomeFrame(f) == [kind |-> "Some", frame |-> f]

NotCalled == [kind |-> "NotCalled", frame |-> ZeroFrame]

\* mutant: a Consecutive Frame takes 6 bytes
TxChunk_Six(remaining) == Min(remaining, 6)

\* bytes a Consecutive Frame takes from the rest of the payload
TxChunk(remaining) == Min(remaining, 7)

next(t) ==
    LET total_len == Len(t.data)
    IN  CASE t.state \in {"Done", "SingleDone"} -> [tx |-> t, ret |-> NoneFrame]
          [] t.state = "NotStarted" ->
                IF total_len <= 7
                THEN \* Single Frame
                     [tx |-> [t EXCEPT !.state = "SingleDone"],
                      ret |-> SomeFrame(IsoTpFrame(1 + total_len, <<total_len>> \o t.data))]
                ELSE \* First Frame
                     LET total_len_u16 == total_len % 65536
                         hi == (total_len_u16 \div 256) % 16
                         lo == total_len_u16 % 256
                         first_chunk == Min(6, total_len)
                     IN  [tx |-> [t EXCEPT !.offset = first_chunk,
                                           !.state = "FirstSent",
                                           !.sn = 1],
                          ret |-> SomeFrame(IsoTpFrame(2 + first_chunk,
                                     <<16 + hi, lo>> \o Slice(t.data, 0, first_chunk)))]
          [] t.state = "FirstSent" ->
                IF t.offset >= total_len
                THEN [tx |-> [t EXCEPT !.state = "Done"], ret |-> NoneFrame]
                ELSE LET pci == 32 + (t.sn % 16)
                         remaining == total_len - t.offset
                         chunk == TxChunk(remaining)
                         offset1 == t.offset + chunk
                     IN  [tx |-> [t EXCEPT !.offset = offset1,
                                           !.sn = (t.sn + 1) % 16,
                                           !.state = IF offset1 >= total_len
                                                     THEN "Done" ELSE "FirstSent"],
                          ret |-> SomeFrame(IsoTpFrame(1 + chunk,
                                     <<pci>> \o Slice(t.data, t.offset, t.offset + chunk)))]

----------------------------------------------------------------------------
(* UDS PDUs (src/src/uds/uds.rs): byte 0 is the address, byte 1 the SID *)

DIVE_CAN_UDS_ADDR == 0

SID_REQUEST_DOWNLOAD_REQ == 52

SID_REQUEST_DOWNLOAD_RESP == 116

SID_REQUEST_UPLOAD_REQ == 53

SID_REQUEST_UPLOAD_RESP == 117

SID_TRANSFER_DATA_REQ == 54

SID_TRANSFER_DATA_RESP == 118

SID_TRANSFER_EXIT_REQ == 55

SID_TRANSFER_EXIT_RESP == 119

SID_NEG_RESPONSE == 127

DFI_PLAIN == 0

ALFI_ADDR4_SIZE4 == 68

\* u32::to_be_bytes
to_be_bytes32(x) ==
    <<(x \div 16777216) % 256, (x \div 65536) % 256, (x \div 256) % 256, x % 256>>

\* Results of the codec layer and of the client: one record shape.
\* kind "Ok" or the UdsClientError variant; what names the inner error.
URes(kind, what, a, b) == [kind |-> kind, what |-> what, a |-> a, b |-> b]

UOk == URes("Ok", "", 0, 0)

\* UdsEncodeError::BufferTooSmall { needed, capacity }
BufferTooSmall(needed, capacity) == URes("Encode", "BufferTooSmall", needed, capacity)

\* UdsDecodeError
TooShort(needed) == URes("Decode", "TooShort", needed, 0)

InvalidFormat == URes("Decode", "InvalidFormat", 0, 0)

\* UdsErrorCode::from_u8, as the variant's name and, for Unknown, its byte
UdsErrorCode_from_u8(value) ==
    CASE value = 16 -> [name |-> "GeneralReject", byte |-> 0]
      [] value = 19 -> [name |-> "IncorrectMessageLengthOrInvalidFormat", byte |-> 0]
      [] value = 33 -> [name |-> "BusyRepeatRequest", byte |-> 0]
      [] value = 34 -> [name |-> "ConditionsNotCorrect", byte |-> 0]
      [] value = 36 -> [name |-> "RequestSequenceError", byte |-> 0]
      [] value = 49 -> [name |-> "RequestOutOfRange", byte |-> 0]
      [] value = 52 -> [name |-> "AuthenticationRequired", byte |-> 0]
      [] value = 114 -> [name |-> "GeneralProgrammingFailure", byte |-> 0]
      [] value = 115 -> [name |-> "WrongBlockSequenceCounter", byte |-> 0]
      [] OTHER -> [name |-> "Unknown", byte |-> value]

\* UdsClientError::NegativeResponse(NegativeResponse { service, code })
NegativeResponse(service, code) == URes("NegativeResponse", code.name, service, code.byte)

\* mutant: a PDU with SID 0x7F is a negative response whatever its length
check_positive_AnyLength(bytes) ==
    IF Len(bytes) >= 2 /\ At(bytes, 1) = SID_NEG_RESPONSE
    THEN NegativeResponse(IF Len(bytes) >= 3 THEN At(bytes, 2) ELSE 0,
                          UdsErrorCode_from_u8(IF Len(bytes) >= 4 THEN At(bytes, 3) ELSE 0))
    ELSE UOk

\* UdsPduView::check_positive: Ok, or the negative response
check_positive(bytes) ==
    IF Len(bytes) >= 4 /\ At(bytes, 1) = SID_NEG_RESPONSE
    THEN NegativeResponse(At(bytes, 2), UdsErrorCode_from_u8(At(bytes, 3)))
    ELSE UOk

\* UdsPduView::expect_sid (with ensure_len)
expect_sid(bytes, sid, min_len) ==
    IF Len(bytes) < min_len THEN TooShort(min_len)
    ELSE IF At(bytes, 1) # sid THEN InvalidFormat
    ELSE UOk

\* UdsPduWriter over a buffer of `cap` bytes: [cap, bytes, err]; err is UOk
\* until a set_header / push fails, and `?` then skips what follows
WriterNew(cap) == [cap |-> cap, bytes |-> <<>>, err |-> UOk]

set_header(w, sid) ==
    IF w.err # UOk THEN w
    ELSE IF w.cap < 2 THEN [w EXCEPT !.err = BufferTooSmall(2, w.cap)]
    ELSE [w EXCEPT !.bytes = <<DIVE_CAN_UDS_ADDR, sid>>]

\* mutant: a payload that fills the buffer to its last byte is refused
push_Strict(w, bytes) ==
    IF w.err # UOk THEN w
    ELSE LET needed == Len(w.bytes) + Len(bytes)
         IN  IF needed >= w.cap THEN [w EXCEPT !.err = BufferTooSmall(needed, w.cap)]
             ELSE [w EXCEPT !.bytes = w.bytes \o bytes]

push(w, bytes) ==
    IF w.err # UOk THEN w
    ELSE LET needed == Len(w.bytes) + Len(bytes)
         IN  IF needed > w.cap THEN [w EXCEPT !.err = BufferTooSmall(needed, w.cap)]
             ELSE [w EXCEPT !.bytes = w.bytes \o bytes]

\* RequestDownloadCodec / RequestUploadCodec ::encode_request
RequestDownload_encode_request(req, w) ==
    push(push(push(set_header(w, SID_REQUEST_DOWNLOAD_REQ),
                   <<DFI_PLAIN, ALFI_ADDR4_SIZE4>>),
              to_be_bytes32(req.address)),
         to_be_bytes32(req.size))

RequestUpload_encode_request(req, w) ==
    push(push(push(set_header(w, SID_REQUEST_UPLOAD_REQ),
                   <<DFI_PLAIN, ALFI_ADDR4_SIZE4>>),
              to_be_bytes32(req.address)),
         to_be_bytes32(req.size))

\* RequestDownloadCodec / RequestUploadCodec ::decode_response: [res, payload]
RequestDownload_decode_response(bytes) ==
    LET e == expect_sid(bytes, SID_REQUEST_DOWNLOAD_RESP, 2)
    IN  IF e # UOk THEN [res |-> e, block_seq |-> 0, payload |-> <<>>]
        ELSE [res |-> UOk, block_seq |-> 0, payload |-> Slice(bytes, 2, Len(bytes))]

RequestUpload_decode_response(bytes) ==
    LET e == expect_sid(bytes, SID_REQUEST_UPLOAD_RESP, 2)
    IN  IF e # UOk THEN [res |-> e, block_seq |-> 0, payload |-> <<>>]
        ELSE [res |-> UOk, block_seq |-> 0, payload |-> Slice(bytes, 2, Len(bytes))]

\* TransferDataCodec
TransferData_encode_request(req, w) ==
    push(push(set_header(w, SID_TRANSFER_DATA_REQ), <<req.block_seq>>), req.payload)

TransferData_decode_response(bytes) ==
    LET e == expect_sid(bytes, SID_TRANSFER_DATA_RESP, 3)
    IN  IF e # UOk THEN [res |-> e, block_seq |-> 0, payload |-> <<>>]
        ELSE [res |-> UOk, block_seq |-> At(bytes, 2), payload |-> Slice(bytes, 3, Len(bytes))]

\* TransferExitCodec
TransferExit_encode_request(req, w) == set_header(w, SID_TRANSFER_EXIT_REQ)

TransferExit_decode_response(bytes) ==
    [res |-> expect_sid(bytes, SID_TRANSFER_EXIT_RESP, 2), block_seq |-> 0, payload |-> <<>>]

----------------------------------------------------------------------------
(* The remaining halves of the service codecs.  A decoder returns          *)
(* Decoded(res, value): value is the request or response as a record, <<>> *)
(* for the field-less TransferExitReq / TransferExitResp and on an error.  *)

SID_RDBI_REQ == 34

SID_RDBI_RESP == 98

SID_WDBI_REQ == 46

SID_WDBI_RESP == 110

\* u16::to_be_bytes
to_be_bytes16(x) == <<(x \div 256) % 256, x % 256>>

\* u16::from_be_bytes
from_be_bytes16(b) == b[1] * 256 + b[2]

\* u32::from_be_bytes
from_be_bytes32(b) == b[1] * 16777216 + b[2] * 65536 + b[3] * 256 + b[4]

Decoded(res, value) == [res |-> res, value |-> value]

\* ReadByIdentifierCodec
ReadByIdentifier_encode_request(req, w) ==
    push(set_header(w, SID_RDBI_REQ), to_be_bytes16(req.did))

ReadByIdentifier_decode_request(bytes) ==
    LET e == expect_sid(bytes, SID_RDBI_REQ, 4)
    IN  IF e # UOk THEN Decoded(e, <<>>)
        ELSE Decoded(UOk, [did |-> from_be_bytes16(Slice(bytes, 2, 4))])

ReadByIdentifier_encode_response(resp, w) ==
    push(push(set_header(w, SID_RDBI_RESP), to_be_bytes16(resp.did)), resp.data)

ReadByIdentifier_decode_response(bytes) ==
    LET e == expect_sid(bytes, SID_RDBI_RESP, 4)
    IN  IF e # UOk THEN Decoded(e, <<>>)
        ELSE Decoded(UOk, [did |-> from_be_bytes16(Slice(bytes, 2, 4)),
                           data |-> Slice(bytes, 4, Len(bytes))])

\* WriteByIdentifierCodec
WriteByIdentifier_encode_request(req, w) ==
    push(push(set_header(w, SID_WDBI_REQ), to_be_bytes16(req.did)), req.data)

WriteByIdentifier_decode_request(bytes) ==
    LET e == expect_sid(bytes, SID_WDBI_REQ, 4)
    IN  IF e # UOk THEN Decoded(e, <<>>)
        ELSE Decoded(UOk, [did |-> from_be_bytes16(Slice(bytes, 2, 4)),
                           data |-> Slice(bytes, 4, Len(bytes))])

WriteByIdentifier_encode_response(resp, w) ==
    push(set_header(w, SID_WDBI_RESP), to_be_bytes16(resp.did))

WriteByIdentifier_decode_response(bytes) ==
    LET e == expect_sid(bytes, SID_WDBI_RESP, 4)
    IN  IF e # UOk THEN Decoded(e, <<>>)
        ELSE Decoded(UOk, [did |-> from_be_bytes16(Slice(bytes, 2, 4))])

\* RequestDownloadCodec / RequestUploadCodec ::decode_request, the SID apart
RequestTransfer_decode_request(bytes, sid) ==
    LET e == expect_sid(bytes, sid, 12)
    IN  IF e # UOk THEN Decoded(e, <<>>)
        ELSE IF At(bytes, 2) # DFI_PLAIN \/ At(bytes, 3) # ALFI_ADDR4_SIZE4
        THEN Decoded(InvalidFormat, <<>>)
        ELSE Decoded(UOk, [address |-> from_be_bytes32(Slice(bytes, 4, 8)),
                           size |-> from_be_bytes32(Slice(bytes, 8, 12))])

RequestDownload_decode_request(bytes) ==
    RequestTransfer_decode_request(bytes, SID_REQUEST_DOWNLOAD_REQ)

RequestUpload_decode_request(bytes) ==
    RequestTransfer_decode_request(bytes, SID_REQUEST_UPLOAD_REQ)

RequestDownload_encode_response(resp, w) ==
    push(set_header(w, SID_REQUEST_DOWNLOAD_RESP), resp.payload)

RequestUpload_encode_response(resp, w) ==
    push(set_header(w, SID_REQUEST_UPLOAD_RESP), resp.payload)

\* TransferDataCodec
TransferData_decode_request(bytes) ==
    LET e == expect_sid(bytes, SID_TRANSFER_DATA_REQ, 3)
    IN  IF e # UOk THEN Decoded(e, <<>>)
        ELSE Decoded(UOk, [block_seq |-> At(bytes, 2),
                           payload |-> Slice(bytes, 3, Len(bytes))])

TransferData_encode_response(resp, w) ==
    push(push(set_header(w, SID_TRANSFER_DATA_RESP), <<resp.block_seq>>), resp.payload)

\* TransferExitCodec
TransferExit_decode_request(bytes) ==
    Decoded(expect_sid(bytes, SID_TRANSFER_EXIT_REQ, 2), <<>>)

TransferExit_encode_response(resp, w) == set_header(w, SID_TRANSFER_EXIT_RESP)

----------------------------------------------------------------------------
(* The client (src/crates/candive/src/uds/client.rs) *)

\* What UdsTransport::request does with a request: Err(e), or Ok(len) with
\* `bytes` left in rx_buf.  len > rx_cap is a transport that reports more
\* than the buffer holds.
TransportErr == [ok |-> FALSE, len |-> 0, bytes |-> <<>>]

TransportOk(bytes) == [ok |-> TRUE, len |-> Len(bytes), bytes |-> bytes]

\* no request was put on the transport
NoReply == [ok |-> FALSE, len |-> 0, bytes |-> <<>>]

\* transact: `w` the writer after encode_request,
\* `rep` the transport's answer, `decoded` the codec's decode_response of the
\* response bytes.  [res, block_seq, payload, sent]
transact(w, rx_cap, rep, decoded) ==
    IF w.err # UOk
    THEN [res |-> w.err, block_seq |-> 0, payload |-> <<>>, sent |-> FALSE]
    ELSE IF ~rep.ok
    THEN [res |-> URes("Transport", "", 0, 0), block_seq |-> 0, payload |-> <<>>,
          sent |-> TRUE]
    ELSE IF rep.len > rx_cap
    THEN [res |-> URes("ResponseTooLarge", "", 0, 0), block_seq |-> 0, payload |-> <<>>,
          sent |-> TRUE]
    ELSE LET view == SubSeq(rep.bytes, 1, rep.len)
             pos == check_positive(view)
         IN  IF pos # UOk
             THEN [res |-> pos, block_seq |-> 0, payload |-> <<>>, sent |-> TRUE]
             ELSE [res |-> decoded.res, block_seq |-> decoded.block_seq,
                   payload |-> decoded.payload, sent |-> TRUE]

\* ProtocolError
WrongBlockCounter(expected, got) == URes("Protocol", "WrongBlockCounter", expected, got)

EmptyPayload == URes("Protocol", "EmptyPayload", 0, 0)

\* mutant: the counter does not wrap
wrapping_add1_NoWrap(x) == x + 1

\* u8::wrapping_add(1)
wrapping_add1(x) == (x + 1) % 256

NoSession ==
    [kind |-> "none", tx_cap |-> 0, rx_cap |-> 0, max_block_len |-> 0,
     next_block |-> 0, total_size |-> 0, transferred |-> 0]

\* mutant: a failed transaction is followed by a TransferExit
Outcome_ExitOnError(s, res, n, out, w, sent) ==
    [sess |-> s, ret |-> [res |-> res, n |-> n, out |-> out],
     wire |-> IF sent THEN w.bytes ELSE <<>>,
     reqs |-> IF ~sent THEN <<>>
              ELSE IF res.kind = "Ok" THEN <<w.bytes>>
              ELSE <<w.bytes, <<0, 55>>>>]

\* the outcome of a session call: the session after it, what it returned
\* (n, out: the count and the bytes read_block copied), the request it put
\* on the transport, if any
Outcome(s, res, n, out, w, sent) ==
    [sess |-> s, ret |-> [res |-> res, n |-> n, out |-> out],
     wire |-> IF sent THEN w.bytes ELSE <<>>,
     reqs |-> IF sent THEN <<w.bytes>> ELSE <<>>]

NoRet == [res |-> URes("-", "", 0, 0), n |-> 0, out |-> <<>>]

\* mutant: max_block_len is taken from the length of the payload
MaxBlockLen_Length(resp_payload) == Len(resp_payload)

\* resp.payload[0] as usize
MaxBlockLen(resp_payload) == At(resp_payload, 0)

\* DownloadSession::start
DownloadSession_start(address, size, tx_cap, rx_cap, rep) ==
    LET req == [address |-> address, size |-> size]
        w == RequestDownload_encode_request(req, WriterNew(tx_cap))
        resp == transact(w, rx_cap, rep,
                         RequestDownload_decode_response(SubSeq(rep.bytes, 1, rep.len)))
    IN  IF resp.res # UOk THEN Outcome(NoSession, resp.res, 0, <<>>, w, resp.sent)
        ELSE IF resp.payload = <<>>
        THEN Outcome(NoSession, EmptyPayload, 0, <<>>, w, resp.sent)
        ELSE Outcome([kind |-> "download", tx_cap |-> tx_cap, rx_cap |-> rx_cap,
                      max_block_len |-> MaxBlockLen(resp.payload), next_block |-> 1,
                      total_size |-> 0, transferred |-> 0],
                     UOk, 0, <<>>, w, resp.sent)

\* DownloadSession::send_block
send_block(s, data, rep) ==
    LET req == [block_seq |-> s.next_block, payload |-> data]
        w == TransferData_encode_request(req, WriterNew(s.tx_cap))
        resp == transact(w, s.rx_cap, rep,
                         TransferData_decode_response(SubSeq(rep.bytes, 1, rep.len)))
    IN  IF resp.res # UOk THEN Outcome(s, resp.res, 0, <<>>, w, resp.sent)
        ELSE IF resp.block_seq # s.next_block
        THEN Outcome(s, WrongBlockCounter(s.next_block, resp.block_seq), 0, <<>>,
                     w, resp.sent)
        ELSE Outcome([s EXCEPT !.next_block = wrapping_add1(s.next_block)],
                     UOk, 0, <<>>, w, resp.sent)

\* mutant: finish borrows the session and leaves it usable
finish_KeepsSession(s, rep) ==
    LET w == TransferExit_encode_request(<<>>, WriterNew(s.tx_cap))
        resp == transact(w, s.rx_cap, rep,
                         TransferExit_decode_response(SubSeq(rep.bytes, 1, rep.len)))
    IN  Outcome(s, resp.res, 0, <<>>, w, resp.sent)

\* DownloadSession::finish / UploadSession::finish: the session is consumed
finish(s, rep) ==
    LET w == TransferExit_encode_request(<<>>, WriterNew(s.tx_cap))
        resp == transact(w, s.rx_cap, rep,
                         TransferExit_decode_response(SubSeq(rep.bytes, 1, rep.len)))
    IN  Outcome(NoSession, resp.res, 0, <<>>, w, resp.sent)

\* mutant: the block counter starts at 0
UploadSession_start_FromZero(address, size, tx_cap, rx_cap, rep) ==
    LET req == [address |-> address, size |-> size]
        w == RequestUpload_encode_request(req, WriterNew(tx_cap))
        resp == transact(w, rx_cap, rep,
                         RequestUpload_decode_response(SubSeq(rep.bytes, 1, rep.len)))
    IN  IF resp.res # UOk THEN Outcome(NoSession, resp.res, 0, <<>>, w, resp.sent)
        ELSE Outcome([kind |-> "upload", tx_cap |-> tx_cap, rx_cap |-> rx_cap,
                      max_block_len |-> 0, next_block |-> 0,
                      total_size |-> size, transferred |-> 0],
                     UOk, 0, <<>>, w, resp.sent)

\* UploadSession::start
UploadSession_start(address, size, tx_cap, rx_cap, rep) ==
    LET req == [address |-> address, size |-> size]
        w == RequestUpload_encode_request(req, WriterNew(tx_cap))
        resp == transact(w, rx_cap, rep,
                         RequestUpload_decode_response(SubSeq(rep.bytes, 1, rep.len)))
    IN  IF resp.res # UOk THEN Outcome(NoSession, resp.res, 0, <<>>, w, resp.sent)
        ELSE Outcome([kind |-> "upload", tx_cap |-> tx_cap, rx_cap |-> rx_cap,
                      max_block_len |-> 0, next_block |-> 1,
                      total_size |-> size, transferred |-> 0],
                     UOk, 0, <<>>, w, resp.sent)

\* mutant: the copy is not held to what the upload still lacks
ToCopy_IgnoresRemaining(payload_len, remaining, out_len) == Min(payload_len, out_len)

\* resp.payload.len().min(remaining).min(out.len())
ToCopy(payload_len, remaining, out_len) == Min(Min(payload_len, remaining), out_len)

\* mutant: an empty response payload is taken for a block
ReadPayloadEmpty_Never(p) == FALSE

\* resp.payload.is_empty() in read_block
ReadPayloadEmpty(p) == Len(p) = 0

\* UploadSession::read_block, `out_len` the length of the caller's out slice
read_block(s, out_len, rep) ==
    IF s.transferred >= s.total_size
    THEN Outcome(s, UOk, 0, <<>>, WriterNew(s.tx_cap), FALSE)
    ELSE
    LET req == [block_seq |-> s.next_block, payload |-> <<>>]
        w == TransferData_encode_request(req, WriterNew(s.tx_cap))
        resp == transact(w, s.rx_cap, rep,
                         TransferData_decode_response(SubSeq(rep.bytes, 1, rep.len)))
    IN  IF resp.res # UOk THEN Outcome(s, resp.res, 0, <<>>, w, resp.sent)
        ELSE IF resp.block_seq # s.next_block
        THEN Outcome(s, WrongBlockCounter(s.next_block, resp.block_seq), 0, <<>>,
                     w, resp.sent)
        ELSE IF ReadPayloadEmpty(resp.payload) THEN Outcome(s, UOk, 0, <<>>, w, resp.sent)
        ELSE LET remaining == s.total_size - s.transferred
                 to_copy == ToCopy(Len(resp.payload), remaining, out_len)
             IN  Outcome([s EXCEPT !.transferred = s.transferred + to_copy,
                                   !.next_block = wrapping_add1(s.next_block)],
                         UOk, to_copy, SubSeq(resp.payload, 1, to_copy), w, resp.sent)

\* no pure function has been applied
PureIdle ==
    /\ callee = "-"
    /\ input = <<>>
    /\ output = <<>>

\* the ISO-TP runs leave the client alone
UdsIdle ==
    /\ sess = NoSession
    /\ wire = <<>>
    /\ reply = NoReply
    /\ ret = NoRet
    /\ acked = 0
    /\ op = "-"
    /\ arg = <<>>
    /\ spre = NoSession
    /\ reqs = <<>>
    /\ phase = "none"

\* download() before it is called
NoDownload ==
    [at |-> "-", firmware_data |-> <<>>, max_block_len |-> 0, offset |-> 0,
     block_size |-> 0, exits |-> 0]

\* no iterator made, download() not called
ToolIdle ==
    /\ it = [data |-> <<>>, offset |-> 0, current_kind |-> 0]
    /\ items = <<>>
    /\ itret = "-"
    /\ dl = NoDownload

----------------------------------------------------------------------------
(* Bounds and inputs *)

\* on_frame / reset calls the driver makes with frames of its own choosing
MaxCalls == 2

\* payload lengths 0..MaxSmallLen are all tried, next to the lengths around
\* the 16-frame sequence wrap, the buffer size and the 12-bit length field
MaxSmallLen == 24

PayloadLens ==
    (0..MaxSmallLen) \cup {111, 112, 113, BufLen - 1, BufLen, BufLen + 1, 4095, 4096}

\* payload byte i is (seed + i) mod 256
Seeds == {0, 200}

Payload(L, seed) == [i \in 1..L |-> (seed + i - 1) % 256]

\* frame.len is a u8; 0 and 9 stand for the lengths on_frame refuses
FrameLens == {0, 1, 2, 4, 8, 9}

\* data bytes of the k-th frame the driver hands over: 0x(k+1)1 .. 0x(k+1)7
Pat(k) == [i \in 1..7 |-> 16 * (k + 1) + i]

\* a frame with PCI byte b0 and the pattern in bytes 1..7
PatFrame(len, b0, k) == [len |-> len, data |-> <<b0>> \o Pat(k)]

\* a First Frame declaring `total`, the pattern in bytes 2..7
FirstFrame(len, total, k) ==
    [len |-> len,
     data |-> <<16 + (total \div 256), total % 256>> \o SubSeq(Pat(k), 2, 7)]

SFNibbles == {0, 1, 3, 7, 8}

FFTotals == {0, 1, 6, 7, 20, BufLen, BufLen + 1, 4095}

\* IsoTpRx after the First Frame and k - 1 Consecutive Frames of the
\* segmented payload Payload(L, seed) were fed to a fresh one, the message
\* still incomplete (L > 6 + 7 * (k - 1)); RxAfterIsReached checks it
RxAfter(L, seed, k) ==
    [state |-> "Receiving",
     expected_len |-> <<L>>,
     buf |-> Payload(6 + 7 * (k - 1), seed),
     used |-> 6 + 7 * (k - 1),
     next_sn |-> k % 16]

\* <<L, seed, k>>: the reassemblers in mid-transfer the driver takes over
StartPoints ==
    {<<20, 200, 1>>, <<20, 200, 2>>, <<BufLen, 0, 15>>, <<BufLen, 0, 146>>}

RxStarts == {IsoTpRxNew} \cup {RxAfter(p[1], p[2], p[3]) : p \in StartPoints}

----------------------------------------------------------------------------
(* Driver of IsoTpRx with frames of its own choosing *)

InitRx ==
    /\ rx \in RxStarts
    /\ result = NoResult
    /\ frame = ZeroFrame
    /\ pre = rx
    /\ ncalls = 0
    /\ tx = IsoTpTxNew(<<>>)
    /\ txret = NotCalled
    /\ nframes = 0
    /\ pending = <<>>
    /\ completed = 0
    /\ UdsIdle
    /\ PureIdle /\ ToolIdle

\* rx.on_frame(&f)
CallOnFrame(f) ==
    LET o == on_frame(rx, f)
    IN  /\ pre' = rx
        /\ frame' = f
        /\ rx' = o.rx
        /\ result' = o.ret
        /\ completed' = IF o.ret.kind = "Completed" THEN completed + 1 ELSE completed

RxSingle ==
    /\ ncalls < MaxCalls
    /\ \E len \in FrameLens, nib \in SFNibbles : CallOnFrame(PatFrame(len, nib, ncalls))
    /\ ncalls' = ncalls + 1
    /\ UNCHANGED <<tx, txret, nframes, pending, udsVars, pureVars, toolVars>>

RxFirst ==
    /\ ncalls < MaxCalls
    /\ \E len \in FrameLens, total \in FFTotals : CallOnFrame(FirstFrame(len, total, ncalls))
    /\ ncalls' = ncalls + 1
    /\ UNCHANGED <<tx, txret, nframes, pending, udsVars, pureVars, toolVars>>

\* in sequence, one ahead (a frame was lost), one behind (a frame repeated)
RxConsecutive ==
    /\ ncalls < MaxCalls
    /\ \E len \in FrameLens, d \in {0, 1, 15} :
          CallOnFrame(PatFrame(len, 32 + ((rx.next_sn + d) % 16), ncalls))
    /\ ncalls' = ncalls + 1
    /\ UNCHANGED <<tx, txret, nframes, pending, udsVars, pureVars, toolVars>>

RxFlowControl ==
    /\ ncalls < MaxCalls
    /\ \/ \E len \in FrameLens, fs \in {0, 1} : CallOnFrame(PatFrame(len, 48 + fs, ncalls))
       \/ CallOnFrame(make_flow_control_cts(0, 0))
    /\ ncalls' = ncalls + 1
    /\ UNCHANGED <<tx, txret, nframes, pending, udsVars, pureVars, toolVars>>

RxUnknown ==
    /\ ncalls < MaxCalls
    /\ \E len \in FrameLens, b0 \in {64, 240} : CallOnFrame(PatFrame(len, b0, ncalls))
    /\ ncalls' = ncalls + 1
    /\ UNCHANGED <<tx, txret, nframes, pending, udsVars, pureVars, toolVars>>

\* rx.reset()
RxReset ==
    /\ ncalls < MaxCalls
    /\ pre' = rx
    /\ frame' = ZeroFrame
    /\ rx' = reset(rx)
    /\ result' = NoResult
    /\ ncalls' = ncalls + 1
    /\ UNCHANGED <<tx, txret, nframes, pending, completed, udsVars, pureVars, toolVars>>

NextRx == RxSingle \/ RxFirst \/ RxConsecutive \/ RxFlowControl \/ RxUnknown \/ RxReset

SpecRx == InitRx /\ [][NextRx]_vars

Spec == SpecRx

TypeOK ==
    /\ rx.state \in {"Idle", "Receiving"}
    /\ rx.used \in 0..BufLen
    /\ Len(rx.buf) <= BufLen
    /\ rx.used <= Len(rx.buf)

----------------------------------------------------------------------------
(* Segmenter feeding a fresh reassembler, frame by frame *)

InitRT ==
    /\ \E L \in PayloadLens, seed \in Seeds : tx = IsoTpTxNew(Payload(L, seed))
    /\ rx = IsoTpRxNew
    /\ result = NoResult
    /\ frame = ZeroFrame
    /\ pre = rx
    /\ ncalls = 0
    /\ txret = NotCalled
    /\ nframes = 0
    /\ pending = <<>>
    /\ completed = 0
    /\ UdsIdle
    /\ PureIdle /\ ToolIdle

\* tx.next()
TxNext ==
    /\ pending = <<>>
    /\ LET n == next(tx)
       IN  /\ tx' = n.tx
           /\ txret' = n.ret
           /\ pending' = IF n.ret.kind = "Some" THEN <<n.ret.frame>> ELSE <<>>
           /\ nframes' = IF n.ret.kind = "Some" THEN nframes + 1 ELSE nframes
    /\ UNCHANGED <<rx, result, frame, pre, ncalls, completed, udsVars, pureVars, toolVars>>

\* rx.on_frame(&f) for the frame tx produced
RxDeliver ==
    /\ pending # <<>>
    /\ CallOnFrame(pending[1])
    /\ pending' = <<>>
    /\ UNCHANGED <<tx, txret, nframes, ncalls, udsVars, pureVars, toolVars>>

NextRT == TxNext \/ RxDeliver

SpecRT == InitRT /\ [][NextRT]_vars

\* a Consecutive Frame out of sequence reaches rx in the middle of the transfer
RxOutOfOrder ==
    /\ ncalls < MaxCalls
    /\ rx.state = "Receiving"
    /\ \E len \in {1, 8}, d \in {1, 2, 15} :
          CallOnFrame(PatFrame(len, 32 + ((rx.next_sn + d) % 16), ncalls))
    /\ ncalls' = ncalls + 1
    /\ UNCHANGED <<tx, txret, nframes, pending, udsVars, pureVars, toolVars>>

NextSeq == TxNext \/ RxDeliver \/ RxOutOfOrder

SpecSeq == InitRT /\ [][NextSeq]_vars

\* the reassemblers InitRx starts from are states the transfer passes through
RxAfterIsReached ==
    \A p \in StartPoints :
        (tx.data = Payload(p[1], p[2]) /\ nframes = p[3] /\ pending = <<>>)
            => rx = RxAfter(p[1], p[2], p[3])

RxAfterWitness ==
    \E p \in StartPoints :
        tx.data = Payload(p[1], p[2]) /\ nframes = p[3] /\ pending = <<>> /\ p[1] = BufLen

----------------------------------------------------------------------------
(* What the claims speak of, read off the frame and the call record *)

\* the last call on rx was on_frame (reset returns nothing)
Called == result # NoResult

\* the frame's PCI type as the high nibble of byte 0 names it; a frame of
\* len 0 or len > 8 is refused before its type is looked at
IsPci(f, nibble) == f.len \in 1..8 /\ At(f.data, 0) \div 16 = nibble

LowNibble(f) == At(f.data, 0) % 16

\* the 12-bit total length a First Frame declares
DeclaredTotal(f) == LowNibble(f) * 256 + At(f.data, 1)

TxDone == tx.state \in {"Done", "SingleDone"}

\* frames the segmenter emits for a payload of length L
NumFrames(L) == IF L <= 7 THEN 1 ELSE 1 + ((L - 6) + 6) \div 7

\* the k-th frame (k = 1, 2, ...) the claim describes for the payload `data`
ExpectedFrame(data, k) ==
    LET L == Len(data)
    IN  IF L <= 7 THEN [len |-> 1 + L, data |-> <<L>> \o data \o Zeros(7 - L)]
        ELSE IF k = 1
        THEN [len |-> 8, data |-> <<16 + (L \div 256), L % 256>> \o SubSeq(data, 1, 6)]
        ELSE LET j == k - 1
                 from == 6 + 7 * (j - 1)
                 n == Min(7, L - from)
             IN  [len |-> 1 + n,
                  data |-> <<32 + (j % 16)>> \o SubSeq(data, from + 1, from + n)
                           \o Zeros(7 - n)]

----------------------------------------------------------------------------
(* C1: for a payload of length L in 1..=1024, the frames of IsoTpTx fed in *)
(* order into a fresh IsoTpRx give FlowControlRequired for the First       *)
(* Frame, None for every Consecutive Frame but the last, and exactly one   *)
(* Completed(L), on the last frame; the reassembler is then Idle and       *)
(* payload() is the original payload.                                      *)
C1_RoundTrip ==
    LET L == Len(tx.data)
    IN  (L \in 1..BufLen) =>
           /\ completed <= 1
           /\ (nframes >= 1 /\ pending = <<>>) =>
                 IF TxDone
                 THEN /\ result = EvCompleted(L)
                      /\ completed = 1
                      /\ rx.state = "Idle"
                      /\ payload(rx) = tx.data
                 ELSE /\ completed = 0
                      /\ result = IF nframes = 1 THEN EvFlowControlRequired ELSE EvNone
           /\ (nframes = 1 /\ pending = <<>> /\ L > 7) => result = EvFlowControlRequired
           /\ pending # <<>> => completed = 0

C1_Witness ==
    /\ Len(tx.data) = BufLen
    /\ TxDone /\ pending = <<>>
    /\ nframes = 147
    /\ result = EvCompleted(BufLen)
    /\ payload(rx) = tx.data

(* C2 as claimed: next_sn is in 0..=15 and, while Receiving,               *)
(* 0 < used <= expected_len.                                               *)
C2_Original ==
    /\ rx.next_sn \in 0..15
    /\ rx.state = "Receiving" =>
          /\ rx.expected_len # <<>>
          /\ 0 < rx.used
          /\ rx.used <= rx.expected_len[1]

(* C2 amended: next_sn is in 0..=15 and, while Receiving, expected_len is  *)
(* Some(e) with used <= e; used may be 0 (a First Frame of len 2 carries   *)
(* no data byte).                                                          *)
C2_Invariant ==
    /\ rx.next_sn \in 0..15
    /\ rx.state = "Receiving" =>
          /\ rx.expected_len # <<>>
          /\ 0 <= rx.used
          /\ rx.used <= rx.expected_len[1]

C2_Witness ==
    /\ rx.state = "Receiving"
    /\ rx.used = 0
    /\ IsPci(frame, 1) /\ frame.len = 2

(* C3 as claimed: on_frame on a First Frame declaring a total in 1..=1024  *)
(* returns FlowControlRequired and leaves rx Receiving with expected_len = *)
(* the total, next_sn = 1 and used = the data bytes copied (at most 6).    *)
C3_Original ==
    (Called /\ IsPci(frame, 1) /\ DeclaredTotal(frame) \in 1..BufLen) =>
        /\ result = EvFlowControlRequired
        /\ rx.state = "Receiving"
        /\ rx.expected_len = <<DeclaredTotal(frame)>>
        /\ rx.next_sn = 1
        /\ rx.used <= 6
        /\ payload(rx) = Slice(frame.data, 2, 2 + rx.used)

(* C3 amended: on_frame on a First Frame of len >= 2 declaring a total in  *)
(* 1..=1024 returns FlowControlRequired with next_sn = 1 and               *)
(* used = min(len - 2, total, 6), the first data bytes of the frame; rx is *)
(* left Receiving with expected_len = total, unless the frame carries the  *)
(* whole message (used = total): then rx is left Idle with expected_len    *)
(* None.  A First Frame of len 1 fails with LengthMismatch.                *)
C3_FirstFrame ==
    (Called /\ IsPci(frame, 1) /\ DeclaredTotal(frame) \in 1..BufLen) =>
        IF frame.len < 2 THEN result = ErrLengthMismatch /\ rx = pre
        ELSE LET total == DeclaredTotal(frame)
                 n == Min(Min(frame.len - 2, total), 6)
             IN  /\ result = EvFlowControlRequired
                 /\ rx.next_sn = 1
                 /\ rx.used = n
                 /\ payload(rx) = Slice(frame.data, 2, 2 + n)
                 /\ IF n = total
                    THEN rx.state = "Idle" /\ rx.expected_len = <<>>
                    ELSE rx.state = "Receiving" /\ rx.expected_len = <<total>>

C3_Witness ==
    /\ Called /\ IsPci(frame, 1) /\ DeclaredTotal(frame) = 6 /\ frame.len = 8
    /\ pre.state = "Receiving"
    /\ result = EvFlowControlRequired
    /\ rx.state = "Idle"

\* a Consecutive Frame in sequence that carries more than the message lacks
CfExcess ==
    /\ Called
    /\ pre.state = "Receiving"
    /\ IsPci(frame, 2)
    /\ LowNibble(frame) = pre.next_sn
    /\ frame.len - 1 > pre.expected_len[1] - pre.used

(* C4 as claimed: while Receiving, a Consecutive Frame in sequence whose   *)
(* data bytes would take used beyond expected_len fails with Overflow.     *)
C4_Original == CfExcess => result = ErrOverflow

(* C4 amended: while Receiving, a Consecutive Frame in sequence whose data *)
(* bytes would take used beyond expected_len is accepted: only the         *)
(* expected_len - used bytes the message lacks are copied, the rest of the *)
(* frame is dropped, and the call returns Completed(expected_len).         *)
C4_ExcessTruncated ==
    CfExcess =>
        LET e == pre.expected_len[1]
        IN  /\ result = EvCompleted(e)
            /\ rx.used = e
            /\ rx.state = "Idle"
            /\ payload(rx) = payload(pre) \o Slice(frame.data, 1, 1 + (e - pre.used))

C4_Witness ==
    /\ CfExcess
    /\ frame.len = 8
    /\ pre.expected_len = <<BufLen>>
    /\ result = EvCompleted(BufLen)

(* C5: while Receiving, a Consecutive Frame whose sequence nibble differs  *)
(* from next_sn returns SequenceError{expected: next_sn, got: nibble} and  *)
(* leaves used, next_sn, expected_len and the buffer as they were; the     *)
(* Consecutive Frames delivered in order afterwards still complete the     *)
(* message with the original payload.                                      *)
C5_SequenceError ==
    /\ (Called /\ pre.state = "Receiving" /\ IsPci(frame, 2)
            /\ LowNibble(frame) # pre.next_sn) =>
          /\ result = ErrSequenceError(pre.next_sn, LowNibble(frame))
          /\ rx = pre
    /\ (Len(tx.data) \in 1..BufLen /\ TxDone /\ pending = <<>>) =>
          /\ completed = 1
          /\ rx.state = "Idle"
          /\ payload(rx) = tx.data

C5_Witness ==
    /\ ncalls = MaxCalls
    /\ Len(tx.data) = 113
    /\ TxDone /\ pending = <<>>
    /\ completed = 1
    /\ payload(rx) = tx.data

(* C6: a Consecutive Frame received while rx is Idle (also right after a   *)
(* Completed event or a reset) and a Flow Control frame received in any    *)
(* state make on_frame return UnexpectedFrameType, never None or           *)
(* Completed.                                                              *)
C6_Unexpected ==
    /\ (Called /\ IsPci(frame, 2) /\ pre.state = "Idle") =>
          result = ErrUnexpectedFrameType("First Frame before ConsecutiveFrame",
                                          "Consecutive")
    /\ (Called /\ IsPci(frame, 3)) =>
          result = ErrUnexpectedFrameType("Single/First/Consecutive", "FlowControl")

\* Idle with used > 0: the call before ended with Completed
C6_Witness ==
    /\ Called /\ IsPci(frame, 2)
    /\ pre.state = "Idle" /\ pre.used > 0
    /\ result.kind = "UnexpectedFrameType"

(* C7: on_frame on a Single Frame returns Completed(sf_len), with          *)
(* payload() the sf_len data bytes and the state Idle, exactly when the    *)
(* length nibble is in 1..=7 and frame.len = 1 + sf_len; every other       *)
(* Single Frame fails with LengthMismatch.                                 *)
C7_SingleFrame ==
    (Called /\ At(frame.data, 0) \div 16 = 0) =>
        LET sf_len == LowNibble(frame)
        IN  IF sf_len \in 1..7 /\ frame.len = 1 + sf_len
            THEN /\ result = EvCompleted(sf_len)
                 /\ payload(rx) = Slice(frame.data, 1, 1 + sf_len)
                 /\ rx.state = "Idle"
            ELSE result = ErrLengthMismatch

C7_Witness ==
    /\ Called /\ IsPci(frame, 0)
    /\ LowNibble(frame) = 7 /\ frame.len = 8
    /\ pre.state = "Receiving"
    /\ result = EvCompleted(7)
    /\ rx.state = "Idle"

(* C8: IsoTpTx over a payload of length L emits, for L <= 7, one Single    *)
(* Frame (byte0 = L, the payload, len = 1 + L) and, for 8 <= L <= 4095, a  *)
(* First Frame (byte0 = 0x10 | (L >> 8), byte1 = L & 0xFF, 6 payload       *)
(* bytes, len = 8) and ceil((L - 6) / 7) Consecutive Frames, the k-th with *)
(* byte0 = 0x20 | (k mod 16) and the next up-to-7 payload bytes; bytes     *)
(* past len are zero and after the last frame next() returns None for      *)
(* ever.  The 11-byte payload 00..0A gives 10 0B 00 01 02 03 04 05 (len 8) *)
(* and 21 06 07 08 09 0A (len 6).                                          *)
C8_Segmenter ==
    LET L == Len(tx.data)
    IN  (L <= 4095) =>
           /\ nframes <= NumFrames(L)
           /\ txret.kind = "Some" => txret.frame = ExpectedFrame(tx.data, nframes)
           /\ txret.kind = "None" => nframes = NumFrames(L) /\ TxDone
           /\ nframes = NumFrames(L) <=> TxDone
           /\ TxDone => next(tx) = [tx |-> tx, ret |-> NoneFrame]
           /\ (tx.data = Payload(11, 0) /\ txret.kind = "Some") =>
                 txret.frame = IF nframes = 1
                               THEN [len |-> 8, data |-> <<16, 11, 0, 1, 2, 3, 4, 5>>]
                               ELSE [len |-> 6, data |-> <<33, 6, 7, 8, 9, 10, 0, 0>>]

C8_Witness ==
    /\ tx.data = Payload(11, 0)
    /\ nframes = 2
    /\ txret = SomeFrame([len |-> 6, data |-> <<33, 6, 7, 8, 9, 10, 0, 0>>])

----------------------------------------------------------------------------
(* Block transfers: a caller driving one session at a time over a          *)
(* transport whose answers are the device's                                *)

\* successful blocks per run; the block counter wraps after 255 of them
MaxBlocks == 257

\* tx_buf.len(): too short for any request, long enough for a 1-byte block
TxCaps == {8, 12}

RxCaps == {16}

Addresses == {134217728}

UploadSizes == {0, 3, 1000}

\* data of a block: none, one byte, more than a 12-byte tx_buf takes
BlockData == {<<>>, <<161>>, [i \in 1..10 |-> 160 + i]}

\* out.len() of read_block: the short upload is read with no room, one
\* byte or two in its first blocks, everything else a byte at a time
OutLens(s) == IF s.total_size <= 3 /\ s.next_block <= 4 THEN {0, 1, 2} ELSE {1}

\* answers to the request of a transfer: failure of the transport, the
\* positive response (with and without parameter bytes), a negative
\* response (also cut short), a response of another service, more bytes
\* than rx_buf holds
StartReplies(resp_sid, req_sid, rx_cap) ==
    {TransportErr,
     TransportOk(<<0, resp_sid>>),
     TransportOk(<<0, resp_sid, 4>>),
     TransportOk(<<0, resp_sid, 255, 7>>),
     TransportOk(<<0, SID_NEG_RESPONSE, req_sid, 34>>),
     TransportOk(<<0, SID_NEG_RESPONSE, req_sid>>),
     TransportOk(<<0, SID_TRANSFER_EXIT_RESP>>),
     TransportOk(<<0>>),
     [ok |-> TRUE, len |-> rx_cap + 1, bytes |-> Zeros(rx_cap)]}

\* answers to TransferData carrying block counter seq: as above, and the
\* counter echoed with 0, 1 or 2 data bytes, or not echoed
TransferReplies(seq, rx_cap) ==
    {TransportErr,
     TransportOk(<<0, SID_TRANSFER_DATA_RESP, seq>>),
     TransportOk(<<0, SID_TRANSFER_DATA_RESP, seq, 208>>),
     TransportOk(<<0, SID_TRANSFER_DATA_RESP, seq, 208, 209>>),
     TransportOk(<<0, SID_TRANSFER_DATA_RESP, (seq + 1) % 256, 208>>),
     TransportOk(<<0, SID_TRANSFER_DATA_RESP, (seq + 255) % 256, 208>>),
     TransportOk(<<0, SID_NEG_RESPONSE, SID_TRANSFER_DATA_REQ, 115>>),
     TransportOk(<<0, SID_NEG_RESPONSE, SID_REQUEST_DOWNLOAD_REQ, 153>>),
     TransportOk(<<0, SID_NEG_RESPONSE, SID_TRANSFER_DATA_REQ>>),
     TransportOk(<<0, SID_TRANSFER_DATA_RESP>>),
     TransportOk(<<0, SID_TRANSFER_EXIT_RESP, seq>>),
     [ok |-> TRUE, len |-> rx_cap + 1, bytes |-> Zeros(rx_cap)]}

ExitReplies ==
    {TransportErr,
     TransportOk(<<0, SID_TRANSFER_EXIT_RESP>>),
     TransportOk(<<0, SID_NEG_RESPONSE, SID_TRANSFER_EXIT_REQ, 36>>),
     TransportOk(<<0, SID_TRANSFER_DATA_RESP, 1>>)}

\* the response is a positive TransferData response that fits rx_buf
PositiveTransfer(rep, rx_cap) ==
    /\ rep.ok
    /\ rep.len <= rx_cap
    /\ rep.len >= 3
    /\ At(rep.bytes, 1) = SID_TRANSFER_DATA_RESP

\* the device acknowledged the block the request `w` asked for: a positive
\* TransferData response echoing the request's counter; in an upload the
\* response carries the block, and one without data carries none
Acknowledges(kind, w, rep, rx_cap) ==
    /\ w # <<>>
    /\ PositiveTransfer(rep, rx_cap)
    /\ At(rep.bytes, 2) = At(w, 2)
    /\ kind = "upload" => rep.len > 3

IsoTpIdle ==
    /\ rx = IsoTpRxNew
    /\ result = NoResult
    /\ frame = ZeroFrame
    /\ pre = IsoTpRxNew
    /\ ncalls = 0
    /\ tx = IsoTpTxNew(<<>>)
    /\ txret = NotCalled
    /\ nframes = 0
    /\ pending = <<>>
    /\ completed = 0

InitXfer == IsoTpIdle /\ UdsIdle /\ PureIdle /\ ToolIdle

\* the order of a session's requests: where it stands after one more request
PhaseStep(p, sid) ==
    CASE sid \in {SID_REQUEST_DOWNLOAD_REQ, SID_REQUEST_UPLOAD_REQ} ->
            IF p = "new" THEN "requested" ELSE "bad"
      [] sid = SID_TRANSFER_DATA_REQ ->
            IF p \in {"started", "transferring"} THEN "transferring" ELSE "bad"
      [] sid = SID_TRANSFER_EXIT_REQ ->
            IF p \in {"started", "transferring"} THEN "exited" ELSE "bad"
      [] OTHER -> "bad"

RECURSIVE PhaseSteps(_, _)
PhaseSteps(p, rs) ==
    IF rs = <<>> THEN p ELSE PhaseSteps(PhaseStep(p, At(Head(rs), 1)), Tail(rs))

\* after a session call: a start begins a new session, and its request counts as
\* answered positively when it returned Ok
PhaseAfter(name, o) ==
    LET p == PhaseSteps(IF name \in {"DownloadSession::start", "UploadSession::start"}
                        THEN "new" ELSE phase, o.reqs)
    IN  IF p = "requested" /\ o.ret.res = UOk THEN "started" ELSE p

\* the record of a session call with outcome o
Record(name, a, o, rep) ==
    /\ phase' = PhaseAfter(name, o)
    /\ op' = name
    /\ arg' = a
    /\ spre' = sess
    /\ sess' = o.sess
    /\ ret' = o.ret
    /\ wire' = o.wire
    /\ reqs' = o.reqs
    /\ reply' = IF o.wire = <<>> THEN NoReply ELSE rep

DlStart ==
    /\ sess.kind = "none"
    /\ \E address \in Addresses, size \in UploadSizes, tx_cap \in TxCaps, rx_cap \in RxCaps :
          \E rep \in StartReplies(SID_REQUEST_DOWNLOAD_RESP, SID_REQUEST_DOWNLOAD_REQ, rx_cap) :
             Record("DownloadSession::start", <<address, size>>,
                    DownloadSession_start(address, size, tx_cap, rx_cap, rep), rep)
    /\ acked' = 0
    /\ UNCHANGED <<isotpVars, pureVars, toolVars>>

DlSendBlock ==
    /\ sess.kind = "download"
    /\ acked < MaxBlocks
    /\ \E data \in BlockData, rep \in TransferReplies(sess.next_block, sess.rx_cap) :
          LET o == send_block(sess, data, rep)
          IN  /\ Record("send_block", data, o, rep)
              /\ acked' = IF Acknowledges("download", o.wire, rep, sess.rx_cap)
                          THEN acked + 1 ELSE acked
    /\ UNCHANGED <<isotpVars, pureVars, toolVars>>

DlFinish ==
    /\ sess.kind = "download"
    /\ \E rep \in ExitReplies : Record("DownloadSession::finish", <<>>, finish(sess, rep), rep)
    /\ UNCHANGED <<acked, isotpVars, pureVars, toolVars>>

UlStart ==
    /\ sess.kind = "none"
    /\ \E address \in Addresses, size \in UploadSizes, tx_cap \in TxCaps, rx_cap \in RxCaps :
          \E rep \in StartReplies(SID_REQUEST_UPLOAD_RESP, SID_REQUEST_UPLOAD_REQ, rx_cap) :
             Record("UploadSession::start", <<address, size>>,
                    UploadSession_start(address, size, tx_cap, rx_cap, rep), rep)
    /\ acked' = 0
    /\ UNCHANGED <<isotpVars, pureVars, toolVars>>

UlReadBlock ==
    /\ sess.kind = "upload"
    /\ acked < MaxBlocks
    /\ \E out_len \in OutLens(sess), rep \in TransferReplies(sess.next_block, sess.rx_cap) :
          LET o == read_block(sess, out_len, rep)
          IN  /\ Record("read_block", <<out_len>>, o, rep)
              /\ acked' = IF Acknowledges("upload", o.wire, rep, sess.rx_cap)
                          THEN acked + 1 ELSE acked
    /\ UNCHANGED <<isotpVars, pureVars, toolVars>>

UlFinish ==
    /\ sess.kind = "upload"
    /\ \E rep \in ExitReplies : Record("UploadSession::finish", <<>>, finish(sess, rep), rep)
    /\ UNCHANGED <<acked, isotpVars, pureVars, toolVars>>

NextXfer == DlStart \/ DlSendBlock \/ DlFinish \/ UlStart \/ UlReadBlock \/ UlFinish

SpecXfer == InitXfer /\ [][NextXfer]_vars

----------------------------------------------------------------------------
\* the last call put a TransferData request on the transport
SentTransfer == Len(wire) >= 3 /\ At(wire, 1) = SID_TRANSFER_DATA_REQ

(* C9: send_block sends TransferData with block_seq = next_block; if the   *)
(* response echoes that counter, next_block becomes (next_block + 1) mod   *)
(* 256 (one step, 255 wraps to 0); if it echoes another counter g, the     *)
(* call returns Protocol(WrongBlockCounter{expected: next_block, got: g})  *)
(* and next_block is not changed.                                          *)
C9_SendBlock ==
    (op = "send_block") =>
        /\ wire # <<>> =>
              wire = <<DIVE_CAN_UDS_ADDR, SID_TRANSFER_DATA_REQ, spre.next_block>> \o arg
        /\ (wire # <<>> /\ PositiveTransfer(reply, spre.rx_cap)) =>
              IF At(reply.bytes, 2) = spre.next_block
              THEN /\ ret.res = UOk
                   /\ sess.next_block = (spre.next_block + 1) % 256
                   /\ sess.next_block \in 0..255
              ELSE /\ ret.res = WrongBlockCounter(spre.next_block, At(reply.bytes, 2))
                   /\ sess.next_block = spre.next_block

C9_Witness ==
    /\ op = "send_block"
    /\ spre.next_block = 255
    /\ PositiveTransfer(reply, spre.rx_cap) /\ At(reply.bytes, 2) = 255
    /\ ret.res = UOk
    /\ sess.next_block = 0

(* C10: within one DownloadSession or UploadSession the block_seq of a     *)
(* TransferData request is (1 + the blocks acknowledged so far in the      *)
(* session) mod 256: the counter starts at 1, does not skip or go back,    *)
(* and a block counts as acknowledged only when the response echoed the    *)
(* counter of the pending request.                                         *)
C10_BlockCounter ==
    /\ sess.kind \in {"download", "upload"} => sess.next_block = (1 + acked) % 256
    /\ (op \in {"send_block", "read_block"} /\ SentTransfer) =>
          LET before == IF Acknowledges(spre.kind, wire, reply, spre.rx_cap)
                        THEN acked - 1 ELSE acked
          IN  /\ At(wire, 2) = (1 + before) % 256
              /\ sess.next_block # spre.next_block =>
                    /\ Acknowledges(spre.kind, wire, reply, spre.rx_cap)
                    /\ sess.next_block = (spre.next_block + 1) % 256

C10_Witness ==
    /\ op = "read_block"
    /\ SentTransfer
    /\ acked = 256
    /\ At(wire, 2) = 0
    /\ sess.next_block = 1

----------------------------------------------------------------------------
\* the device answered the pending TransferData with the counter asked for
\* and no data
EmptyEcho ==
    /\ SentTransfer
    /\ reply = TransportOk(<<DIVE_CAN_UDS_ADDR, SID_TRANSFER_DATA_RESP, At(wire, 2)>>)

(* C11: when the device answers the TransferData of read_block with the    *)
(* correct counter and an empty payload, read_block returns 0, next_block  *)
(* and transferred are unchanged, and the next read_block requests the     *)
(* same block counter again.                                               *)
C11_EmptyPayload ==
    (op = "read_block" /\ EmptyEcho) =>
        /\ ret = [res |-> UOk, n |-> 0, out |-> <<>>]
        /\ sess.next_block = spre.next_block
        /\ sess.transferred = spre.transferred
        /\ sess = spre
        /\ \A out_len \in OutLens(sess), rep \in TransferReplies(sess.next_block, sess.rx_cap) :
              read_block(sess, out_len, rep).wire = wire

C11_Witness ==
    /\ op = "read_block" /\ EmptyEcho
    /\ spre.transferred = 2 /\ spre.total_size = 3
    /\ ret.n = 0
    /\ sess.next_block = spre.next_block

(* C12: in an UploadSession started with size S, transferred <= S always;  *)
(* a successful read_block whose response carries a non-empty payload      *)
(* returns n = min(payload.len(), out.len(), S - transferred), copies the  *)
(* first n payload bytes to out, adds n to transferred and advances        *)
(* next_block by one (wrapping); once transferred >= S, read_block returns *)
(* 0 and puts no request on the transport.                                 *)
C12_ReadBlock ==
    /\ sess.kind = "upload" =>
          /\ sess.transferred <= sess.total_size
          /\ op = "UploadSession::start" =>
                sess.total_size = arg[2] /\ sess.transferred = 0
    /\ (op = "read_block" /\ SentTransfer /\ ret.res = UOk /\ reply.len > 3) =>
          LET p == Slice(reply.bytes, 3, reply.len)
              n == Min(Min(Len(p), arg[1]), spre.total_size - spre.transferred)
          IN  /\ ret.n = n
              /\ ret.out = SubSeq(p, 1, n)
              /\ sess.transferred = spre.transferred + n
              /\ sess.next_block = (spre.next_block + 1) % 256
              /\ sess.total_size = spre.total_size
    /\ (op = "read_block" /\ spre.transferred >= spre.total_size) =>
          /\ ret = [res |-> UOk, n |-> 0, out |-> <<>>]
          /\ wire = <<>>
          /\ sess = spre

\* the payload (2 bytes) and out (2 bytes) exceed what the upload lacks (1)
C12_Witness ==
    /\ op = "read_block" /\ SentTransfer /\ ret.res = UOk
    /\ reply.len = 5 /\ arg = <<2>>
    /\ spre.total_size = 3 /\ spre.transferred = 2
    /\ ret.n = 1
    /\ sess.transferred = 3

\* the response is a negative response as check_positive knows it
IsNegative(rep) ==
    rep.ok /\ rep.len >= 4 /\ At(rep.bytes, 1) = SID_NEG_RESPONSE

(* C13: when the TransferData transaction of send_block or read_block      *)
(* fails (transport error, negative response, decode error, mismatched     *)
(* block counter), the error is returned after exactly one transport       *)
(* request: no retry, no TransferExit; a negative response is surfaced as  *)
(* NegativeResponse{service, code} with the bytes the device sent; and     *)
(* next_block and transferred are unchanged.                               *)
C13_TransferFails ==
    (op \in {"send_block", "read_block"} /\ ret.res.kind \in
         {"Transport", "NegativeResponse", "Decode", "Protocol", "ResponseTooLarge"}) =>
        /\ Len(reqs) = 1
        /\ reqs[1] = wire
        /\ SentTransfer /\ At(wire, 2) = spre.next_block
        /\ sess = spre
        /\ sess.next_block = spre.next_block /\ sess.transferred = spre.transferred
        /\ ~reply.ok <=> ret.res.kind = "Transport"
        /\ IsNegative(reply) <=> ret.res.kind = "NegativeResponse"
        /\ IsNegative(reply) =>
              /\ ret.res.a = At(reply.bytes, 2)
              /\ ret.res = NegativeResponse(At(reply.bytes, 2),
                                            UdsErrorCode_from_u8(At(reply.bytes, 3)))
              /\ At(reply.bytes, 3) = 115 => ret.res.what = "WrongBlockSequenceCounter"
              /\ At(reply.bytes, 3) = 153 => ret.res.what = "Unknown" /\ ret.res.b = 153
        /\ ret.res.kind = "Protocol" =>
              ret.res = WrongBlockCounter(spre.next_block, At(reply.bytes, 2))

C13_Witness ==
    /\ op = "read_block"
    /\ spre.transferred = 2
    /\ reply = TransportOk(<<0, 127, 52, 153>>)
    /\ ret.res = URes("NegativeResponse", "Unknown", 52, 153)
    /\ Len(reqs) = 1
    /\ sess = spre

\* the response is a positive RequestDownload response that fits rx_buf
PositiveDownload(rep, rx_cap) ==
    /\ rep.ok
    /\ rep.len <= rx_cap
    /\ rep.len >= 2
    /\ At(rep.bytes, 1) = SID_REQUEST_DOWNLOAD_RESP

(* C14: DownloadSession::start sends one RequestDownload; if the positive  *)
(* response carries no byte after the 2-byte header the call fails with    *)
(* Protocol(EmptyPayload) and there is no session; otherwise the session   *)
(* is created with next_block = 1 and max_block_len = the first payload    *)
(* byte of the response.                                                   *)
C14_DownloadStart ==
    (op = "DownloadSession::start") =>
        /\ Len(reqs) <= 1
        /\ ret.res.kind # "Encode" => Len(reqs) = 1
        /\ reqs # <<>> =>
              reqs[1] = <<DIVE_CAN_UDS_ADDR, SID_REQUEST_DOWNLOAD_REQ, DFI_PLAIN,
                          ALFI_ADDR4_SIZE4>>
                        \o to_be_bytes32(arg[1]) \o to_be_bytes32(arg[2])
        /\ sess.kind = "download" <=> ret.res = UOk
        /\ sess.kind # "download" => sess = NoSession
        /\ (reqs # <<>> /\ \A rx_cap \in RxCaps : PositiveDownload(reply, rx_cap)) =>
              IF reply.len = 2
              THEN ret.res = EmptyPayload /\ sess = NoSession
              ELSE /\ ret.res = UOk
                   /\ sess.kind = "download"
                   /\ sess.next_block = 1
                   /\ sess.max_block_len = At(reply.bytes, 2)

C14_Witness ==
    /\ op = "DownloadSession::start"
    /\ reqs = << <<0, 52, 0, 68, 8, 0, 0, 0, 0, 0, 3, 232>> >>
    /\ reply = TransportOk(<<0, 116, 255, 7>>)
    /\ sess.kind = "download"
    /\ sess.max_block_len = 255
    /\ sess.next_block = 1

----------------------------------------------------------------------------
(* The PDU layer on its own: check_positive, the codecs and transact       *)
(* applied to PDUs and values drawn from small sets                        *)

Codecs ==
    {"ReadByIdentifier", "WriteByIdentifier", "RequestDownload", "RequestUpload",
     "TransferData", "TransferExit"}

\* C::encode_request
encode_request(codec, req, w) ==
    CASE codec = "ReadByIdentifier" -> ReadByIdentifier_encode_request(req, w)
      [] codec = "WriteByIdentifier" -> WriteByIdentifier_encode_request(req, w)
      [] codec = "RequestDownload" -> RequestDownload_encode_request(req, w)
      [] codec = "RequestUpload" -> RequestUpload_encode_request(req, w)
      [] codec = "TransferData" -> TransferData_encode_request(req, w)
      [] codec = "TransferExit" -> TransferExit_encode_request(req, w)

\* C::decode_request
decode_request(codec, bytes) ==
    CASE codec = "ReadByIdentifier" -> ReadByIdentifier_decode_request(bytes)
      [] codec = "WriteByIdentifier" -> WriteByIdentifier_decode_request(bytes)
      [] codec = "RequestDownload" -> RequestDownload_decode_request(bytes)
      [] codec = "RequestUpload" -> RequestUpload_decode_request(bytes)
      [] codec = "TransferData" -> TransferData_decode_request(bytes)
      [] codec = "TransferExit" -> TransferExit_decode_request(bytes)

\* C::encode_response
encode_response(codec, resp, w) ==
    CASE codec = "ReadByIdentifier" -> ReadByIdentifier_encode_response(resp, w)
      [] codec = "WriteByIdentifier" -> WriteByIdentifier_encode_response(resp, w)
      [] codec = "RequestDownload" -> RequestDownload_encode_response(resp, w)
      [] codec = "RequestUpload" -> RequestUpload_encode_response(resp, w)
      [] codec = "TransferData" -> TransferData_encode_response(resp, w)
      [] codec = "TransferExit" -> TransferExit_encode_response(resp, w)

\* C::decode_response as Decoded(res, value)
decode_response(codec, bytes) ==
    CASE codec = "ReadByIdentifier" -> ReadByIdentifier_decode_response(bytes)
      [] codec = "WriteByIdentifier" -> WriteByIdentifier_decode_response(bytes)
      [] codec = "RequestDownload" ->
            LET d == RequestDownload_decode_response(bytes)
            IN  Decoded(d.res, IF d.res = UOk THEN [payload |-> d.payload] ELSE <<>>)
      [] codec = "RequestUpload" ->
            LET d == RequestUpload_decode_response(bytes)
            IN  Decoded(d.res, IF d.res = UOk THEN [payload |-> d.payload] ELSE <<>>)
      [] codec = "TransferData" ->
            LET d == TransferData_decode_response(bytes)
            IN  Decoded(d.res, IF d.res = UOk
                               THEN [block_seq |-> d.block_seq, payload |-> d.payload]
                               ELSE <<>>)
      [] codec = "TransferExit" ->
            Decoded(TransferExit_decode_response(bytes).res, <<>>)

\* a request of each service
SampleRequest(codec) ==
    CASE codec = "ReadByIdentifier" -> [did |-> 33291]
      [] codec = "WriteByIdentifier" -> [did |-> 33291, data |-> <<1, 2>>]
      [] codec = "RequestDownload" -> [address |-> 134217728, size |-> 1000]
      [] codec = "RequestUpload" -> [address |-> 134217728, size |-> 1000]
      [] codec = "TransferData" -> [block_seq |-> 1, payload |-> <<>>]
      [] codec = "TransferExit" -> <<>>

\* what ends up as the SID byte, the service byte and the code byte
PduSids ==
    {SID_NEG_RESPONSE, SID_RDBI_RESP, SID_WDBI_RESP, SID_REQUEST_DOWNLOAD_RESP,
     SID_REQUEST_UPLOAD_RESP, SID_TRANSFER_DATA_RESP, SID_TRANSFER_EXIT_RESP, 126}

PduCodes == {0, 16, 19, 33, 34, 36, 49, 52, 114, 115, 153, 255}

\* PDUs of 0 to 5 bytes
PduSamples ==
    {<<>>, <<0>>}
    \cup {<<a, s>> : a \in {0, 1}, s \in PduSids}
    \cup {<<0, s, v>> : s \in PduSids, v \in {SID_TRANSFER_DATA_REQ, SID_NEG_RESPONSE}}
    \cup {<<0, s, v, c>> : s \in PduSids, v \in {SID_TRANSFER_DATA_REQ, 129},
                           c \in PduCodes}
    \cup {<<0, s, SID_RDBI_REQ, c, 9>> : s \in PduSids, c \in PduCodes}

\* each run applies one function to one input
CheckPositive ==
    /\ callee = "-"
    /\ \E b \in PduSamples :
          /\ callee' = "check_positive"
          /\ input' = b
          /\ output' = check_positive(b)
    /\ UNCHANGED <<isotpVars, udsVars, toolVars>>

\* transact of a service whose request went out and was answered by the PDU
\* b: what the caller gets back
TransactReply ==
    /\ callee = "-"
    /\ \E codec \in Codecs, b \in PduSamples :
          LET w == encode_request(codec, SampleRequest(codec), WriterNew(64))
              d == decode_response(codec, b)
              t == transact(w, 64, TransportOk(b),
                            [res |-> d.res, block_seq |-> 0, payload |-> <<>>])
          IN  /\ callee' = "transact"
              /\ input' = [codec |-> codec, pdu |-> b]
              /\ output' = [res |-> t.res, value |-> IF t.res = UOk THEN d.value ELSE <<>>]
    /\ UNCHANGED <<isotpVars, udsVars, toolVars>>

\* the longest output buffer tried
MaxCap == 16

Dids == {0, 255, 256, 33291, 65535}

Datas == {<<>>, <<7>>, <<0, 255, 127>>}

\* u32 values; the checker's integers end at 0x7FFFFFFF
Words == {0, 1000, 16909060, 134217728, 2147483647}

\* request values of each service
Requests(codec) ==
    CASE codec = "ReadByIdentifier" -> {[did |-> d] : d \in Dids}
      [] codec = "WriteByIdentifier" -> {[did |-> d, data |-> p] : d \in Dids, p \in Datas}
      [] codec \in {"RequestDownload", "RequestUpload"} ->
            {[address |-> a, size |-> n] : a \in Words, n \in Words}
      [] codec = "TransferData" ->
            {[block_seq |-> b, payload |-> p] : b \in {0, 1, 255}, p \in Datas}
      [] codec = "TransferExit" -> {<<>>}

\* response values of each service
Responses(codec) ==
    CASE codec = "ReadByIdentifier" -> {[did |-> d, data |-> p] : d \in Dids, p \in Datas}
      [] codec = "WriteByIdentifier" -> {[did |-> d] : d \in Dids}
      [] codec \in {"RequestDownload", "RequestUpload"} -> {[payload |-> p] : p \in Datas}
      [] codec = "TransferData" ->
            {[block_seq |-> b, payload |-> p] : b \in {0, 1, 255}, p \in Datas}
      [] codec = "TransferExit" -> {<<>>}

\* encode into a buffer of cap bytes, then decode what the writer holds
EncodeRequest ==
    /\ callee = "-"
    /\ \E codec \in Codecs, cap \in 0..MaxCap :
          \E x \in Requests(codec) :
             LET w == encode_request(codec, x, WriterNew(cap))
             IN  /\ callee' = "encode_request"
                 /\ input' = [codec |-> codec, x |-> x, cap |-> cap]
                 /\ output' = [w |-> w,
                               back |-> IF w.err = UOk THEN decode_request(codec, w.bytes)
                                        ELSE Decoded(w.err, <<>>)]
    /\ UNCHANGED <<isotpVars, udsVars, toolVars>>

EncodeResponse ==
    /\ callee = "-"
    /\ \E codec \in Codecs, cap \in 0..MaxCap :
          \E x \in Responses(codec) :
             LET w == encode_response(codec, x, WriterNew(cap))
             IN  /\ callee' = "encode_response"
                 /\ input' = [codec |-> codec, x |-> x, cap |-> cap]
                 /\ output' = [w |-> w,
                               back |-> IF w.err = UOk THEN decode_response(codec, w.bytes)
                                        ELSE Decoded(w.err, <<>>)]
    /\ UNCHANGED <<isotpVars, udsVars, toolVars>>

InitCodec == IsoTpIdle /\ UdsIdle /\ PureIdle /\ ToolIdle

NextCodec == CheckPositive \/ TransactReply \/ EncodeRequest \/ EncodeResponse

SpecCodec == InitCodec /\ [][NextCodec]_vars

(* C15: check_positive returns NegativeResponse{service: bytes[2], code:   *)
(* from_u8(bytes[3])} exactly when the PDU has length >= 4 and bytes[1] =  *)
(* 0x7F; a PDU shorter than 4 bytes counts as positive even when its SID   *)
(* byte is 0x7F, so a transaction that receives it fails with a Decode     *)
(* error, not with NegativeResponse.                                       *)
C15_CheckPositive ==
    /\ callee = "check_positive" =>
          IF Len(input) >= 4 /\ input[2] = 127
          THEN /\ output.kind = "NegativeResponse"
               /\ output.a = input[3]
               /\ output = NegativeResponse(input[3], UdsErrorCode_from_u8(input[4]))
          ELSE output = UOk
    /\ (callee = "transact" /\ Len(input.pdu) \in 2..3 /\ input.pdu[2] = 127) =>
          output.res.kind = "Decode"
    /\ (callee = "transact" /\ Len(input.pdu) >= 4 /\ input.pdu[2] = 127) =>
          output.res = NegativeResponse(input.pdu[3], UdsErrorCode_from_u8(input.pdu[4]))

C15_Witness ==
    /\ callee = "transact"
    /\ input = [codec |-> "TransferData", pdu |-> <<0, 127, 54>>]
    /\ output.res = InvalidFormat

\* the bytes of a service's body after the 2-byte header
BodyLen(dir, codec, x) ==
    CASE codec = "ReadByIdentifier" -> IF dir = "encode_request" THEN 2 ELSE 2 + Len(x.data)
      [] codec = "WriteByIdentifier" -> IF dir = "encode_request" THEN 2 + Len(x.data) ELSE 2
      [] codec \in {"RequestDownload", "RequestUpload"} ->
            IF dir = "encode_request" THEN 10 ELSE Len(x.payload)
      [] codec = "TransferData" -> 1 + Len(x.payload)
      [] codec = "TransferExit" -> 0

(* C16: for every service codec and every request or response value x,    *)
(* decoding the PDU produced by encoding x returns x, and encoding fails   *)
(* (BufferTooSmall) if and only if the output buffer is shorter than the   *)
(* encoded PDU: the 2-byte header plus the service's body.                 *)
C16_CodecRoundTrip ==
    (callee \in {"encode_request", "encode_response"}) =>
        LET n == 2 + BodyLen(callee, input.codec, input.x)
        IN  /\ output.w.err # UOk <=> input.cap < n
            /\ output.w.err # UOk =>
                  /\ output.w.err.kind = "Encode"
                  /\ output.w.err.what = "BufferTooSmall"
                  /\ output.w.err.b = input.cap
            /\ output.w.err = UOk =>
                  /\ Len(output.w.bytes) = n
                  /\ output.back = Decoded(UOk, input.x)

\* a request with data that fills the buffer to its last byte
C16_Witness ==
    /\ callee = "encode_request"
    /\ input = [codec |-> "WriteByIdentifier",
                x |-> [did |-> 33291, data |-> <<0, 255, 127>>], cap |-> 7]
    /\ output.w.bytes = <<0, 46, 130, 11, 0, 255, 127>>
    /\ output.back.value = input.x

----------------------------------------------------------------------------
(* DiveCAN messages (src/src/divecan.rs).  The unit newtypes of            *)
(* src/src/units.rs wrap an integer and are modelled by it.  An enum value *)
(* is [t |-> variant, b |-> the byte Unknown(..) / PpO2(..) carries, else  *)
(* 0]; an Option<..Alert> is the variant's name or "None".                 *)

Enum(t, b) == [t |-> t, b |-> b]

\* CellsActive::from_u8
CellsActive_from_u8(v) == v % 8

\* Consensus::from_u8 / to_u8
Consensus_from_u8(v) ==
    CASE v = 255 -> Enum("NotCalibrated", 0)
      [] v = 254 -> Enum("NoActiveCells", 0)
      [] OTHER -> Enum("PpO2", v)

Consensus_to_u8(c) ==
    CASE c.t = "NotCalibrated" -> 255
      [] c.t = "NoActiveCells" -> 254
      [] c.t = "PpO2" -> c.b

\* CalStatusCode::from_byte / to_byte
CalStatusCode_from_byte(b) ==
    CASE b = 1 -> Enum("Success", 0)
      [] b = 5 -> Enum("Ack", 0)
      [] b = 8 -> Enum("Rejected", 0)
      [] b = 16 -> Enum("LowExtBatt", 0)
      [] b = 24 -> Enum("SolenoidError", 0)
      [] b = 32 -> Enum("Fo2RangeError", 0)
      [] b = 40 -> Enum("PressureError", 0)
      [] OTHER -> Enum("Unknown", b)

CalStatusCode_to_byte(c) ==
    CASE c.t = "Success" -> 1
      [] c.t = "Ack" -> 5
      [] c.t = "Rejected" -> 8
      [] c.t = "LowExtBatt" -> 16
      [] c.t = "SolenoidError" -> 24
      [] c.t = "Fo2RangeError" -> 32
      [] c.t = "PressureError" -> 40
      [] c.t = "Unknown" -> c.b

\* VoltageAlert::from_2bit_opt / to_2bit_opt
VoltageAlert_from_2bit_opt(v) ==
    CASE v % 4 = 0 -> "None"
      [] v % 4 = 1 -> "UnderVoltage"
      [] v % 4 = 2 -> "Clear"
      [] v % 4 = 3 -> "OverVoltage"

VoltageAlert_to_2bit_opt(v) ==
    CASE v = "None" -> 0
      [] v = "UnderVoltage" -> 1
      [] v = "Clear" -> 2
      [] v = "OverVoltage" -> 3

\* CurrentAlert::from_2bit_opt / to_2bit_opt
CurrentAlert_from_2bit_opt(v) ==
    CASE v % 4 = 0 -> "None"
      [] v % 4 = 1 -> "UnderCurrent"
      [] v % 4 = 2 -> "Clear"
      [] v % 4 = 3 -> "OverCurrent"

CurrentAlert_to_2bit_opt(v) ==
    CASE v = "None" -> 0
      [] v = "UnderCurrent" -> 1
      [] v = "Clear" -> 2
      [] v = "OverCurrent" -> 3

\* ShutdownReason::from_u8 / to_u8
ShutdownReason_from_u8(v) ==
    CASE v = 0 -> Enum("UserInitiated", 0)
      [] v = 1 -> Enum("Timeout", 0)
      [] OTHER -> Enum("Unknown", v)

ShutdownReason_to_u8(r) ==
    CASE r.t = "UserInitiated" -> 0
      [] r.t = "Timeout" -> 1
      [] r.t = "Unknown" -> r.b

\* a Result of this file: Ok(value) or Err(error)
MOk(value) == [ok |-> TRUE, value |-> value, err |-> "", n |-> 0]

MErr(err, n) == [ok |-> FALSE, value |-> <<>>, err |-> err, n |-> n]

\* Alert::new: the details kept as the written prefix of the 5-byte array
Alert_new(unknown, code, details) ==
    IF Len(details) > 5 THEN MErr("DlcMismatch", 0)
    ELSE MOk([unknown |-> unknown, code |-> code,
              details |-> details \o Zeros(5 - Len(details)),
              details_len |-> Len(details)])

\* the bool a byte is written as
BoolByte(x) == IF x THEN 1 ELSE 0

\* the kind byte of each variant, as Msg::kind gives it
MsgKinds ==
    [Id |-> 0, DeviceName |-> 1, Alert |-> 2, ShutdownInit |-> 3, CellPpo2 |-> 4,
     OboeStatus |-> 7, AmbientPressure |-> 8, Uds |-> 10, TankPressure |-> 11,
     Nop |-> 16, CellVoltages |-> 17, Ppo2CalibrationResponse |-> 18,
     Ppo2CalibrationRequest |-> 19, Co2Enabled |-> 32, Co2 |-> 33,
     Co2CalibrationResponse |-> 34, Co2CalibrationRequest |-> 35,
     Undocumented30 |-> 48, BusInit |-> 55, TempProbe |-> 193, UndocumentedC3 |-> 195,
     TempProbeEnabled |-> 196, Setpoint |-> 201, CellStatus |-> 202, SoloStatus |-> 203,
     Diving |-> 204, Serial |-> 210]

\* Msg::kind
Msg_kind(m) == MsgKinds[m.v]

\* mutant: an Alert's dlc leaves out its details
Msg_dlc_AlertHeaderOnly(m) ==
    CASE m.v \in {"DeviceName", "SoloStatus", "Ppo2CalibrationResponse", "Nop", "Uds",
                  "Serial"} -> 8
      [] m.v \in {"CellVoltages", "Diving"} -> 7
      [] m.v = "UndocumentedC3" -> 6
      [] m.v \in {"OboeStatus", "AmbientPressure"} -> 5
      [] m.v = "CellPpo2" -> 4
      [] m.v \in {"ShutdownInit", "Co2Enabled", "Setpoint", "TempProbeEnabled"} -> 1
      [] m.v \in {"CellStatus", "Co2CalibrationRequest"} -> 2
      [] OTHER -> 3

\* Msg::dlc
Msg_dlc(m) ==
    CASE m.v = "Id" -> 3
      [] m.v = "DeviceName" -> 8
      [] m.v = "Alert" -> (3 + m.alert.details_len) % 256
      [] m.v = "ShutdownInit" -> 1
      [] m.v = "CellPpo2" -> 4
      [] m.v = "CellVoltages" -> 7
      [] m.v = "CellStatus" -> 2
      [] m.v = "SoloStatus" -> 8
      [] m.v = "OboeStatus" -> 5
      [] m.v = "AmbientPressure" -> 5
      [] m.v = "TankPressure" -> 3
      [] m.v = "Co2Enabled" -> 1
      [] m.v = "Co2" -> 3
      [] m.v = "Co2CalibrationResponse" -> 3
      [] m.v = "Co2CalibrationRequest" -> 2
      [] m.v = "Ppo2CalibrationRequest" -> 3
      [] m.v = "Ppo2CalibrationResponse" -> 8
      [] m.v = "Setpoint" -> 1
      [] m.v = "TempProbeEnabled" -> 1
      [] m.v = "TempProbe" -> 3
      [] m.v = "UndocumentedC3" -> 6
      [] m.v = "Diving" -> 7
      [] m.v = "BusInit" -> 3
      [] m.v = "Undocumented30" -> 3
      [] m.v = "Nop" -> 8
      [] m.v = "Uds" -> 8
      [] m.v = "Serial" -> 8

\* Msg::dlc_min_size: <<n>> is Some(n), <<>> is None
dlc_min_size(kind) ==
    CASE kind \in {1, 10, 16, 18, 203, 210} -> <<8>>
      [] kind \in {17, 204} -> <<7>>
      [] kind = 195 -> <<6>>
      [] kind \in {7, 8} -> <<5>>
      [] kind = 4 -> <<4>>
      [] kind \in {0, 2, 11, 19, 33, 34, 48, 55, 193} -> <<3>>
      [] kind \in {35, 202} -> <<2>>
      [] kind \in {3, 32, 196, 201} -> <<1>>
      [] OTHER -> <<>>

\* DiveCanFrame
DiveCanFrame(kind, dlc, data) == [kind |-> kind, dlc |-> dlc, data |-> data]

\* DiveCanFrame::new
DiveCanFrame_new(kind, dlc, data) ==
    IF dlc > 8 THEN MErr("InvalidDlc", dlc) ELSE MOk(DiveCanFrame(kind, dlc, data))

\* the array b of to_frame: zero but for the bytes written from index 0 on
Written(bytes) == bytes \o Zeros(8 - Len(bytes))

\* the bytes Msg::to_frame writes for each variant
ToFrameBytes(m) ==
    CASE m.v = "Id" -> <<m.manufacturer, m.unused, m.version>>
      [] m.v = "DeviceName" -> m.raw
      [] m.v = "Alert" ->
            <<m.alert.unknown>> \o to_be_bytes16(m.alert.code)
            \o SubSeq(m.alert.details, 1, m.alert.details_len)
      [] m.v = "ShutdownInit" -> <<ShutdownReason_to_u8(m.reason)>>
      [] m.v = "CellPpo2" -> <<0, m.cells[1], m.cells[2], m.cells[3]>>
      [] m.v = "OboeStatus" ->
            <<BoolByte(m.battery_ok), m.battery_voltage, m.unknown1, m.unknown2,
              m.unknown3>>
      [] m.v = "AmbientPressure" ->
            to_be_bytes16(m.surface) \o to_be_bytes16(m.current)
            \o <<BoolByte(m.depth_comp)>>
      [] m.v = "Uds" -> m.raw
      [] m.v = "TankPressure" -> <<m.cylinder_index>> \o to_be_bytes16(m.pressure)
      [] m.v = "Nop" -> <<>>
      [] m.v = "CellVoltages" ->
            to_be_bytes16(m.cell_voltages[1]) \o to_be_bytes16(m.cell_voltages[2])
            \o to_be_bytes16(m.cell_voltages[3]) \o <<m.unused>>
      [] m.v = "Ppo2CalibrationResponse" ->
            <<CalStatusCode_to_byte(m.status), m.cell_voltages[1], m.cell_voltages[2],
              m.cell_voltages[3], m.fo2>>
            \o to_be_bytes16(m.pressure) \o <<m.cells_active>>
      [] m.v = "Ppo2CalibrationRequest" -> <<m.fo2>> \o to_be_bytes16(m.pressure)
      [] m.v = "Co2Enabled" -> <<BoolByte(m.enabled)>>
      [] m.v = "Co2" -> <<m.unknown>> \o to_be_bytes16(m.pco2)
      [] m.v = "Co2CalibrationResponse" -> <<m.code>> \o to_be_bytes16(m.pco2)
      [] m.v = "Co2CalibrationRequest" -> to_be_bytes16(m.pco2)
      [] m.v = "Undocumented30" -> m.raw
      [] m.v = "BusInit" -> m.unused
      [] m.v = "TempProbe" -> <<m.sensor_id>> \o to_be_bytes16(m.temp)
      [] m.v = "UndocumentedC3" ->
            to_be_bytes16(m.unknown1) \o to_be_bytes16(m.unknown2)
            \o <<m.unknown3, m.unknown4>>
      [] m.v = "TempProbeEnabled" -> <<BoolByte(m.enabled)>>
      [] m.v = "Setpoint" -> <<m.setpoint>>
      [] m.v = "CellStatus" -> <<m.cells_active, Consensus_to_u8(m.consensus)>>
      [] m.v = "SoloStatus" ->
            <<m.voltage>> \o to_be_bytes16(m.current)
            \o to_be_bytes16(m.injection_duration)
            \o <<m.setpoint, Consensus_to_u8(m.consensus),
                 (VoltageAlert_to_2bit_opt(m.voltage_alert) % 4)
                 + (CurrentAlert_to_2bit_opt(m.current_alert) % 4) * 4>>
      [] m.v = "Diving" ->
            <<m.status>> \o to_be_bytes16(m.dive_number) \o to_be_bytes32(m.timestamp)
      [] m.v = "Serial" -> m.raw

\* Msg::to_frame
to_frame(m) == DiveCanFrame(Msg_kind(m), Msg_dlc(m), Written(ToFrameBytes(m)))

\* mutant: only the minimal dlc is taken
DlcMismatch_Exact(dlc, expected) == dlc # expected

\* frame.dlc < expected || frame.dlc > 8
DlcMismatch(dlc, expected) == dlc < expected \/ dlc > 8

\* the message Msg::try_from_frame reads out of the data of a frame whose
\* kind is registered and whose dlc passed
FromFrameData(kind, dlc, data) ==
    LET U16(i) == from_be_bytes16(Slice(data, i, i + 2))
    IN
    CASE kind = 0 -> MOk([v |-> "Id", manufacturer |-> At(data, 0), unused |-> At(data, 1),
                          version |-> At(data, 2)])
      [] kind = 1 -> MOk([v |-> "DeviceName", raw |-> data])
      [] kind = 2 ->
            LET len == SaturatingSub(dlc, 3)
                alert == Alert_new(At(data, 0), U16(1), Slice(data, 3, 3 + len))
            IN  IF alert.ok THEN MOk([v |-> "Alert", alert |-> alert.value]) ELSE alert
      [] kind = 3 -> MOk([v |-> "ShutdownInit", reason |-> ShutdownReason_from_u8(At(data, 0))])
      [] kind = 4 -> MOk([v |-> "CellPpo2", cells |-> Slice(data, 1, 4)])
      [] kind = 7 -> MOk([v |-> "OboeStatus", battery_ok |-> At(data, 0) # 0,
                          battery_voltage |-> At(data, 1), unknown1 |-> At(data, 2),
                          unknown2 |-> At(data, 3), unknown3 |-> At(data, 4)])
      [] kind = 8 -> MOk([v |-> "AmbientPressure", surface |-> U16(0), current |-> U16(2),
                          depth_comp |-> At(data, 4) # 0])
      [] kind = 10 -> MOk([v |-> "Uds", raw |-> data])
      [] kind = 11 -> MOk([v |-> "TankPressure", cylinder_index |-> At(data, 0),
                           pressure |-> U16(1)])
      [] kind = 16 -> MOk([v |-> "Nop"])
      [] kind = 17 -> MOk([v |-> "CellVoltages",
                           cell_voltages |-> <<U16(0), U16(2), U16(4)>>,
                           unused |-> At(data, 6)])
      [] kind = 18 -> MOk([v |-> "Ppo2CalibrationResponse",
                           status |-> CalStatusCode_from_byte(At(data, 0)),
                           cell_voltages |-> Slice(data, 1, 4),
                           fo2 |-> At(data, 4), pressure |-> U16(5),
                           cells_active |-> CellsActive_from_u8(At(data, 7))])
      [] kind = 19 -> MOk([v |-> "Ppo2CalibrationRequest", fo2 |-> At(data, 0),
                           pressure |-> U16(1)])
      [] kind = 32 -> MOk([v |-> "Co2Enabled", enabled |-> At(data, 0) # 0])
      [] kind = 33 -> MOk([v |-> "Co2", unknown |-> At(data, 0), pco2 |-> U16(1)])
      [] kind = 34 -> MOk([v |-> "Co2CalibrationResponse", code |-> At(data, 0),
                           pco2 |-> U16(1)])
      [] kind = 35 -> MOk([v |-> "Co2CalibrationRequest", pco2 |-> U16(0)])
      [] kind = 48 -> MOk([v |-> "Undocumented30", raw |-> Slice(data, 0, 3)])
      [] kind = 55 -> MOk([v |-> "BusInit", unused |-> Slice(data, 0, 3)])
      [] kind = 193 -> MOk([v |-> "TempProbe", sensor_id |-> At(data, 0), temp |-> U16(1)])
      [] kind = 195 -> MOk([v |-> "UndocumentedC3", unknown1 |-> U16(0), unknown2 |-> U16(2),
                            unknown3 |-> At(data, 4), unknown4 |-> At(data, 5)])
      [] kind = 196 -> MOk([v |-> "TempProbeEnabled", enabled |-> At(data, 0) # 0])
      [] kind = 201 -> MOk([v |-> "Setpoint", setpoint |-> At(data, 0)])
      [] kind = 202 -> MOk([v |-> "CellStatus",
                            cells_active |-> CellsActive_from_u8(At(data, 0)),
                            consensus |-> Consensus_from_u8(At(data, 1))])
      [] kind = 203 -> MOk([v |-> "SoloStatus", voltage |-> At(data, 0), current |-> U16(1),
                            injection_duration |-> U16(3), setpoint |-> At(data, 5),
                            consensus |-> Consensus_from_u8(At(data, 6)),
                            voltage_alert |-> VoltageAlert_from_2bit_opt(At(data, 7) % 4),
                            current_alert |->
                                CurrentAlert_from_2bit_opt((At(data, 7) \div 4) % 4)])
      [] kind = 204 -> MOk([v |-> "Diving", status |-> At(data, 0), dive_number |-> U16(1),
                            timestamp |-> from_be_bytes32(Slice(data, 3, 7))])
      [] kind = 210 -> MOk([v |-> "Serial", raw |-> data])
      [] OTHER -> MErr("UnknownKind", kind)

\* Msg::try_from_frame
try_from_frame(f) ==
    LET expected == dlc_min_size(f.kind)
    IN  IF expected = <<>> THEN MErr("UnknownKind", f.kind)
        ELSE IF DlcMismatch(f.dlc, expected[1]) THEN MErr("DlcMismatch", 0)
        ELSE FromFrameData(f.kind, f.dlc, f.data)

----------------------------------------------------------------------------
(* Messages and frames the conversions are applied to *)

\* the largest dlc handed to DiveCanFrame::new
MaxDlc == 9

U8s == {0, 1, 127, 254, 255}

U16s == {0, 258, 65535}

\* byte 3 stays below 128: it is the top byte of Diving's u32 timestamp
Arrays8 == {Zeros(8), <<1, 2, 3, 4, 5, 6, 7, 8>>, <<255, 255, 255, 127, 255, 255, 255, 255>>}

Arrays3 == {<<0, 0, 0>>, <<70, 71, 255>>, <<255, 254, 253>>}

Bools == {TRUE, FALSE}

\* every Consensus: the two markers and PpO2(v), v up to the bytes of the markers
Consensuses ==
    {Enum("NotCalibrated", 0), Enum("NoActiveCells", 0)}
    \cup {Enum("PpO2", v) : v \in {0, 70, 253, 254, 255}}

\* every CalStatusCode: the named ones and Unknown(b), b also a named one's byte
CalStatusCodes ==
    {Enum(t, 0) : t \in {"Success", "Ack", "Rejected", "LowExtBatt", "SolenoidError",
                         "Fo2RangeError", "PressureError"}}
    \cup {Enum("Unknown", b) : b \in {0, 1, 2, 40, 255}}

ShutdownReasons ==
    {Enum("UserInitiated", 0), Enum("Timeout", 0)}
    \cup {Enum("Unknown", b) : b \in {0, 1, 2, 255}}

\* Alerts as Alert::new builds them, with 0 to 5 detail bytes
Alerts ==
    {Alert_new(u, c, SubSeq(<<9, 0, 7, 6, 255>>, 1, n)).value :
        u \in {1, 2}, c \in U16s, n \in 0..5}

\* CellsActive as CellsActive::new / from_u8 build them
CellsActives == 0..7

Msgs ==
    {[v |-> "Id", manufacturer |-> a, unused |-> b, version |-> c] :
        a \in U8s, b \in U8s, c \in U8s}
    \cup {[v |-> n, raw |-> r] : n \in {"DeviceName", "Uds", "Serial"}, r \in Arrays8}
    \cup {[v |-> "Alert", alert |-> a] : a \in Alerts}
    \cup {[v |-> "ShutdownInit", reason |-> r] : r \in ShutdownReasons}
    \cup {[v |-> "CellPpo2", cells |-> c] : c \in Arrays3}
    \cup {[v |-> "OboeStatus", battery_ok |-> k, battery_voltage |-> a, unknown1 |-> b,
           unknown2 |-> c, unknown3 |-> d] :
             k \in Bools, a \in U8s, b \in {0, 255}, c \in {0, 255}, d \in {48, 255}}
    \cup {[v |-> "AmbientPressure", surface |-> s, current |-> c, depth_comp |-> d] :
             s \in U16s, c \in U16s, d \in Bools}
    \cup {[v |-> "TankPressure", cylinder_index |-> i, pressure |-> p] :
             i \in U8s, p \in U16s}
    \cup {[v |-> "Nop"]}
    \cup {[v |-> "CellVoltages", cell_voltages |-> <<a, b, c>>, unused |-> u] :
             a \in U16s, b \in U16s, c \in U16s, u \in {0, 255}}
    \cup {[v |-> "Ppo2CalibrationResponse", status |-> s, cell_voltages |-> c, fo2 |-> f,
           pressure |-> p, cells_active |-> a] :
             s \in CalStatusCodes, c \in Arrays3, f \in {21, 255}, p \in U16s,
             a \in CellsActives}
    \cup {[v |-> "Ppo2CalibrationRequest", fo2 |-> f, pressure |-> p] :
             f \in U8s, p \in U16s}
    \cup {[v |-> n, enabled |-> e] : n \in {"Co2Enabled", "TempProbeEnabled"}, e \in Bools}
    \cup {[v |-> "Co2", unknown |-> u, pco2 |-> p] : u \in U8s, p \in U16s}
    \cup {[v |-> "Co2CalibrationResponse", code |-> c, pco2 |-> p] : c \in U8s, p \in U16s}
    \cup {[v |-> "Co2CalibrationRequest", pco2 |-> p] : p \in U16s}
    \cup {[v |-> "Undocumented30", raw |-> r] : r \in Arrays3}
    \cup {[v |-> "BusInit", unused |-> r] : r \in Arrays3}
    \cup {[v |-> "TempProbe", sensor_id |-> i, temp |-> t] : i \in U8s, t \in U16s}
    \cup {[v |-> "UndocumentedC3", unknown1 |-> a, unknown2 |-> b, unknown3 |-> c,
           unknown4 |-> d] : a \in U16s, b \in U16s, c \in {0, 255}, d \in {1, 255}}
    \cup {[v |-> "Setpoint", setpoint |-> s] : s \in U8s}
    \cup {[v |-> "CellStatus", cells_active |-> a, consensus |-> c] :
             a \in CellsActives, c \in Consensuses}
    \cup {[v |-> "SoloStatus", voltage |-> a, current |-> b, injection_duration |-> c,
           setpoint |-> d, consensus |-> e, voltage_alert |-> f, current_alert |-> g] :
             a \in {0, 255}, b \in {258, 65535}, c \in {0, 65535}, d \in {70, 255},
             e \in Consensuses,
             f \in {"None", "UnderVoltage", "Clear", "OverVoltage"},
             g \in {"None", "UnderCurrent", "Clear", "OverCurrent"}}
    \cup {[v |-> "Diving", status |-> s, dive_number |-> n, timestamp |-> t] :
             s \in {0, 1, 255}, n \in U16s, t \in {0, 16909060, 2147483647}}

\* kinds handed to DiveCanFrame::new: the registered ones and some others
FrameKinds == {MsgKinds[n] : n \in DOMAIN MsgKinds} \cup {5, 9, 54, 255}

\* to_frame, and try_from_frame of the frame it made
ToFrame ==
    /\ callee = "-"
    /\ \E m \in Msgs :
          /\ callee' = "to_frame"
          /\ input' = m
          /\ output' = [frame |-> to_frame(m), back |-> try_from_frame(to_frame(m))]
    /\ UNCHANGED <<isotpVars, udsVars, toolVars>>

\* DiveCanFrame::new and, of the frame it returns, try_from_frame
TryFromFrame ==
    /\ callee = "-"
    /\ \E kind \in FrameKinds, dlc \in 0..MaxDlc, data \in Arrays8 :
          LET new == DiveCanFrame_new(kind, dlc, data)
          IN  /\ callee' = "try_from_frame"
              /\ input' = [kind |-> kind, dlc |-> dlc, data |-> data]
              /\ output' = [new |-> new,
                            decoded |-> IF new.ok THEN try_from_frame(new.value) ELSE new]
    /\ UNCHANGED <<isotpVars, udsVars, toolVars>>

InitMsg == IsoTpIdle /\ UdsIdle /\ PureIdle /\ ToolIdle

NextMsg == ToFrame \/ TryFromFrame

SpecMsg == InitMsg /\ [][NextMsg]_vars

----------------------------------------------------------------------------
(* C17: for every Msg m, to_frame(m) has dlc <= 8, carries the bytes of its fields
   in the first dlc bytes of data, and every data byte at index >= dlc is zero. *)
C17_ToFrameDlc ==
    callee = "to_frame" =>
        LET f == output.frame
            fields == ToFrameBytes(input)
        IN  /\ f.kind = Msg_kind(input)
            /\ f.dlc <= 8
            /\ Len(f.data) = 8
            /\ Len(fields) <= f.dlc
            /\ SubSeq(f.data, 1, Len(fields)) = fields
            /\ \A i \in 0..7 : i >= f.dlc => At(f.data, i) = 0

\* an alert with two detail bytes: five bytes used, the last of them not zero
C17_Witness ==
    /\ callee = "to_frame"
    /\ input.v = "Alert"
    /\ input.alert.details_len = 2
    /\ output.frame.dlc = 5
    /\ At(output.frame.data, 3) = 9
    /\ At(output.frame.data, 2) = 255

----------------------------------------------------------------------------
(* C18: for every Msg m and every value of its fields, the Unknown(..) alternatives and
   every Consensus::PpO2 value included, try_from_frame(to_frame(m)) succeeds and
   equals m. *)
C18_RoundTrip ==
    callee = "to_frame" => output.back = MOk(input)

----------------------------------------------------------------------------
(* C19: try_from_frame of a frame of a known kind succeeds for every dlc from the
   kind's minimum up to 8 and fails with DlcMismatch below the minimum; a kind outside
   the registry fails with UnknownKind; DiveCanFrame::new rejects dlc > 8 with
   InvalidDlc, so no frame with dlc > 8 is decoded. *)
C19_DlcWindow ==
    callee = "try_from_frame" =>
        LET min == dlc_min_size(input.kind)
        IN  IF input.dlc > 8
            THEN /\ output.new = MErr("InvalidDlc", input.dlc)
                 /\ ~output.decoded.ok
                 /\ output.decoded.err = "InvalidDlc"
            ELSE /\ output.new = MOk(DiveCanFrame(input.kind, input.dlc, input.data))
                 /\ IF min = <<>>
                    THEN output.decoded = MErr("UnknownKind", input.kind)
                    ELSE IF input.dlc < min[1]
                    THEN output.decoded.err = "DlcMismatch" /\ ~output.decoded.ok
                    ELSE /\ output.decoded.ok
                         /\ Msg_kind(output.decoded.value) = input.kind

\* a TankPressure frame (three bytes needed) given with dlc 8 decodes
C19_Witness ==
    /\ callee = "try_from_frame"
    /\ input.kind = 11
    /\ input.dlc = 8
    /\ output.decoded.ok
    /\ output.decoded.value.v = "TankPressure"

----------------------------------------------------------------------------
(* diag/did.rs: SoloConfigDid, DID 0x820b.
   config_word is a u32; the model keeps it as its top byte and its low 24 bits. *)

\* a | b
RECURSIVE BitOr(_, _)
BitOr(a, b) ==
    IF a = 0 THEN b
    ELSE IF b = 0 THEN a
    ELSE (IF a % 2 = 1 \/ b % 2 = 1 THEN 1 ELSE 0) + 2 * BitOr(a \div 2, b \div 2)

\* self.ppo2_control_mode as u32
PPO2ControlMode_as_u32(mode) ==
    CASE mode = "UserSelect" -> 0
      [] mode = "Manual" -> 1
      [] mode = "OneSec" -> 2
      [] mode = "FiveSec" -> 3

\* PPO2ControlMode::from_u8: <<mode>> for Some(mode), <<>> for None
PPO2ControlMode_from_u8(value) ==
    CASE value = 0 -> <<"UserSelect">>
      [] value = 1 -> <<"Manual">>
      [] value = 2 -> <<"OneSec">>
      [] value = 3 -> <<"FiveSec">>
      [] OTHER -> <<>>

BattHalved_Never(battery_voltage_min, doubling) == battery_voltage_min

\* if self.battery_voltage_doubling { batt_raw >>= 1 }
BattHalved(battery_voltage_min, doubling) ==
    IF doubling THEN battery_voltage_min \div 2 ELSE battery_voltage_min

\* SoloConfigDid::to_bytes
SoloConfigDid_to_bytes(c) ==
    LET w1 == BitOr(0, IF c.calibration_procedure = "Monitored" THEN 1 ELSE 2)
        w2 == BitOr(w1, (PPO2ControlMode_as_u32(c.ppo2_control_mode) % 4) * 4)
        w3 == IF c.cell_mode = "ThreeCell" THEN BitOr(w2, 16) ELSE w2
        w4 == BitOr(w3, IF c.depth_compensation_enabled THEN 64 ELSE 128)
        sol_min_raw == (SaturatingSub(c.solenoid_current_min_ma, 50) \div 10) % 16
        w5 == BitOr(w4, sol_min_raw * 256)
        sol_max_raw == (SaturatingSub(c.solenoid_current_max_ma, 50) \div 10) % 32
        w6 == BitOr(w5, (sol_max_raw % 16) * 4096)
        w7 == BitOr(w6, (sol_max_raw \div 16) * 8388608)
        batt_raw ==
            (SaturatingSub(BattHalved(c.battery_voltage_min, c.battery_voltage_doubling), 50)
                \div 2) % 16
        w8 == BitOr(w7, batt_raw * 65536)
        w9 == IF c.battery_voltage_doubling THEN BitOr(w8, 4194304) ELSE w8
        low == BitOr(w9, (c.reserved_bits_20_21 % 4) * 1048576)
    IN  <<c.reserved_bits_24_31, low \div 65536, (low \div 256) % 256, low % 256>>

\* SoloConfigDid::try_from
SoloConfigDid_try_from(bytes) ==
    IF Len(bytes) # 4 THEN MErr("BadLength", 4)
    ELSE
        LET low == At(bytes, 1) * 65536 + At(bytes, 2) * 256 + At(bytes, 3)
            mode == PPO2ControlMode_from_u8((low \div 4) % 4)
            sol_max_lo == (low \div 4096) % 16
            sol_max_hi == (low \div 8388608) % 2
            batt_min_raw == (low \div 65536) % 16
            battery_voltage_doubling == (low \div 4194304) % 2 = 1
        IN  IF mode = <<>> THEN MErr("InvalidFormat", 0)
            ELSE MOk([calibration_procedure |->
                          IF low % 4 = 1 THEN "Monitored" ELSE "Direct",
                      ppo2_control_mode |-> mode[1],
                      cell_mode |-> IF (low \div 16) % 4 = 1 THEN "ThreeCell" ELSE "TwoCell",
                      depth_compensation_enabled |-> (low \div 64) % 4 = 1,
                      solenoid_current_min_ma |-> 50 + ((low \div 256) % 16) * 10,
                      solenoid_current_max_ma |->
                          50 + BitOr(sol_max_hi * 16, sol_max_lo) * 10,
                      battery_voltage_min |->
                          IF battery_voltage_doubling
                          THEN ((50 + batt_min_raw * 2) * 2) % 65536
                          ELSE 50 + batt_min_raw * 2,
                      battery_voltage_doubling |-> battery_voltage_doubling,
                      reserved_bits_20_21 |-> (low \div 1048576) % 4,
                      reserved_bits_24_31 |-> At(bytes, 0)])

SoloConfig(cal, mode, cell, depth, smin, smax, batt, dbl, r20, r24) ==
    [calibration_procedure |-> cal, ppo2_control_mode |-> mode, cell_mode |-> cell,
     depth_compensation_enabled |-> depth, solenoid_current_min_ma |-> smin,
     solenoid_current_max_ma |-> smax, battery_voltage_min |-> batt,
     battery_voltage_doubling |-> dbl, reserved_bits_20_21 |-> r20,
     reserved_bits_24_31 |-> r24]

\* the values the packing represents
SolMins == {50 + 10 * k : k \in 0..15}

SolMaxs == {50 + 10 * k : k \in 0..31}

BattMins(dbl) == IF dbl THEN {100 + 4 * k : k \in 0..15} ELSE {50 + 2 * k : k \in 0..15}

Representable(c) ==
    /\ c.solenoid_current_min_ma \in SolMins
    /\ c.solenoid_current_max_ma \in SolMaxs
    /\ c.battery_voltage_min \in BattMins(c.battery_voltage_doubling)
    /\ c.reserved_bits_20_21 <= 3

PPO2ControlModes == {"UserSelect", "Manual", "OneSec", "FiveSec"}

\* each numeric field over all it represents, the other fields at one value
SweptConfigs ==
    {SoloConfig("Direct", "Manual", "ThreeCell", TRUE, s, 240, 148, TRUE, 3, 138) :
        s \in SolMins}
    \cup {SoloConfig("Direct", "Manual", "ThreeCell", TRUE, 110, s, 148, TRUE, 3, 138) :
        s \in SolMaxs}
    \cup UNION {{SoloConfig("Monitored", "OneSec", "TwoCell", FALSE, 110, 240, b, dbl, 0, 255) :
        b \in BattMins(dbl)} : dbl \in Bools}

\* boundary values of every field together, some of them not representable
CrossedConfigs ==
    {SoloConfig(cal, mode, cell, depth, smin, smax, IF dbl THEN 2 * batt ELSE batt, dbl,
                r20, 138) :
        cal \in {"Direct", "Monitored"}, mode \in PPO2ControlModes,
        cell \in {"TwoCell", "ThreeCell"}, depth \in Bools,
        smin \in {50, 200, 55, 210}, smax \in {50, 210, 360, 370},
        batt \in {50, 80, 51, 82}, dbl \in Bools, r20 \in {0, 3, 4}}

DidBytes ==
    {<<138, 252, 54, 86>>, <<0, 0, 0, 0>>, <<255, 255, 255, 255>>, <<138, 252, 54>>,
     <<138, 252, 54, 86, 0>>, <<>>}

\* to_bytes, then try_from of the bytes and to_bytes again
ToBytes ==
    /\ callee = "-"
    /\ \E c \in SweptConfigs \cup CrossedConfigs :
          LET w == SoloConfigDid_to_bytes(c)
              back == SoloConfigDid_try_from(w)
          IN  /\ callee' = "SoloConfigDid::to_bytes"
              /\ input' = c
              /\ output' = [bytes |-> w, back |-> back,
                            again |-> IF back.ok THEN SoloConfigDid_to_bytes(back.value)
                                      ELSE <<>>]
    /\ UNCHANGED <<isotpVars, udsVars, toolVars>>

\* try_from of received bytes, then to_bytes of the value
TryFrom ==
    /\ callee = "-"
    /\ \E bytes \in DidBytes :
          LET c == SoloConfigDid_try_from(bytes)
          IN  /\ callee' = "SoloConfigDid::try_from"
              /\ input' = bytes
              /\ output' = [decoded |-> c,
                            bytes |-> IF c.ok THEN SoloConfigDid_to_bytes(c.value) ELSE <<>>]
    /\ UNCHANGED <<isotpVars, udsVars, toolVars>>

InitDid == IsoTpIdle /\ UdsIdle /\ PureIdle /\ ToolIdle

NextDid == ToBytes \/ TryFrom

SpecDid == InitDid /\ [][NextDid]_vars

(* C20: on the representable domain the packing is a bijection: try_from(to_bytes(c)) = c
   and to_bytes(try_from(w)) = w for every w = to_bytes(c); bytes 8A FC 36 56 decode
   to battery_voltage_min = 148 and encode again to 8A FC 36 56. *)
C20_SoloConfigPacking ==
    /\ callee = "SoloConfigDid::to_bytes" /\ Representable(input) =>
          /\ Len(output.bytes) = 4
          /\ output.back = MOk(input)
          /\ output.again = output.bytes
    /\ callee = "SoloConfigDid::try_from" /\ input = <<138, 252, 54, 86>> =>
          /\ output.decoded.ok
          /\ output.decoded.value.battery_voltage_min = 148
          /\ output.bytes = <<138, 252, 54, 86>>

\* a doubled battery threshold and a solenoid maximum that needs bit 23
C20_Witness ==
    /\ callee = "SoloConfigDid::to_bytes"
    /\ Representable(input)
    /\ input.battery_voltage_doubling
    /\ input.battery_voltage_min = 148
    /\ input.solenoid_current_max_ma = 240
    /\ output.bytes = <<138, 252, 54, 86>>
    /\ output.back.ok

----------------------------------------------------------------------------
(* diag/settings.rs: user-setting DIDs and payloads *)

USER_SETTING_COUNT == 37120

USER_SETTING_INFO == 37136

USER_SETTING_VALUE == 37168

USER_SETTING_LABEL == 37200

USER_SETTING_SAVE == 37712

ENUM_INDEX_OFFSET == 5

MAX_ENUM_INDEX == 10

\* let label_kind_max = 0x91F0
label_kind_max == 37360

\* UserSettingDid values; a field a variant does not have is 0
UserSettingDid(v, index, enum_index) == [v |-> v, index |-> index, enum_index |-> enum_index]

\* UserSettingDid::to_did, on u16
to_did(d) ==
    CASE d.v = "Count" -> USER_SETTING_COUNT
      [] d.v = "Info" -> (USER_SETTING_INFO + d.index) % 65536
      [] d.v = "ReadState" -> (USER_SETTING_VALUE + d.index) % 65536
      [] d.v = "Enum" -> (USER_SETTING_LABEL + d.enum_index + ((d.index * 16) % 65536)) % 65536
      [] d.v = "WriteInput" -> (USER_SETTING_SAVE + d.index) % 65536

IndexFromNibble_NoOffset(option_nibble) == <<option_nibble>>

\* option_nibble.checked_sub(ENUM_INDEX_OFFSET): <<x>> for Some(x), <<>> for None
IndexFromNibble(option_nibble) ==
    IF option_nibble >= ENUM_INDEX_OFFSET THEN <<option_nibble - ENUM_INDEX_OFFSET>> ELSE <<>>

\* UserSettingDid::try_from(u16)
UserSettingDid_try_from(did) ==
    LET kind == did - (did % 16)
        index == did % 16
        option_nibble == (did \div 16) % 16
        index_from_nibble == IndexFromNibble(option_nibble)
    IN  IF did = USER_SETTING_COUNT THEN MOk(UserSettingDid("Count", 0, 0))
        ELSE IF kind = USER_SETTING_INFO THEN MOk(UserSettingDid("Info", index, 0))
        ELSE IF kind = USER_SETTING_VALUE THEN MOk(UserSettingDid("ReadState", index, 0))
        ELSE IF kind >= USER_SETTING_LABEL /\ kind <= label_kind_max
        THEN IF index_from_nibble = <<>> THEN MErr("BadEnumIndex", option_nibble)
             ELSE IF index_from_nibble[1] > MAX_ENUM_INDEX
             THEN MErr("BadEnumIndex", option_nibble)
             ELSE MOk(UserSettingDid("Enum", index_from_nibble[1], index))
        ELSE IF kind = USER_SETTING_SAVE THEN MOk(UserSettingDid("WriteInput", index, 0))
        ELSE MErr("UnknownDid", did)

\* UserSettingDidError::length_mismatch
length_mismatch(actual, expected) ==
    IF actual < expected THEN MErr("TooShort", expected) ELSE MErr("TooLong", expected)

\* UserSettingType::try_from(u8)
UserSettingType_try_from(v) ==
    CASE v = 0 -> MOk("Integer")
      [] v = 1 -> MOk("Selection")
      [] v = 2 -> MOk("Scaled")
      [] OTHER -> MErr("BadSettingType", v)

\* kind as u8
UserSettingType_as_u8(kind) ==
    CASE kind = "Integer" -> 0
      [] kind = "Selection" -> 1
      [] kind = "Scaled" -> 2

\* if data.len() < 4 { return Err(TooShort { needed: 4 }) }
WriteInputMin == 4

\* UserSettingPayload::decode
UserSettingPayload_decode(ident, data) ==
    CASE ident.v = "Count" ->
            IF Len(data) < 1 THEN MErr("TooShort", 1)
            ELSE MOk([v |-> "Count", count |-> At(data, 0)])
      [] ident.v = "Info" ->
            IF Len(data) < 12 THEN MErr("TooShort", 12)
            ELSE LET kind == UserSettingType_try_from(At(data, 10))
                 IN  IF ~kind.ok THEN kind
                     ELSE MOk([v |-> "Info", name |-> Slice(data, 0, 10),
                               editable |-> At(data, 11) # 0, kind |-> kind.value])
      [] ident.v = "ReadState" ->
            IF Len(data) # 16 THEN length_mismatch(Len(data), 16)
            ELSE MOk([v |-> "State", raw |-> data])
      [] ident.v = "Enum" ->
            IF Len(data) # 8 THEN length_mismatch(Len(data), 8)
            ELSE MOk([v |-> "Enum", name |-> data])
      [] ident.v = "WriteInput" ->
            IF Len(data) < WriteInputMin THEN MErr("TooShort", WriteInputMin)
            ELSE IF Len(data) > 8 THEN MErr("TooLong", 8)
            ELSE MOk([v |-> "Input", len |-> Len(data),
                      bytes |-> data \o Zeros(8 - Len(data))])

\* UserSettingPayload::encode into a buffer of buf_len bytes: the bytes written
UserSettingPayload_encode(p, buf_len) ==
    CASE p.v = "Count" ->
            IF buf_len < 1 THEN MErr("TooShort", 1) ELSE MOk(<<p.count>>)
      [] p.v = "Info" ->
            IF buf_len < Len(p.name) + 2 THEN MErr("TooShort", Len(p.name) + 2)
            ELSE MOk(p.name \o <<UserSettingType_as_u8(p.kind), BoolByte(p.editable)>>)
      [] p.v = "State" ->
            IF buf_len < 16 THEN MErr("TooShort", 16) ELSE MOk(p.raw)
      [] p.v = "Input" ->
            IF buf_len < p.len THEN MErr("TooShort", p.len)
            ELSE MOk(Slice(p.bytes, 0, p.len))
      [] p.v = "Enum" ->
            IF buf_len < Len(p.name) THEN MErr("TooShort", Len(p.name)) ELSE MOk(p.name)

----------------------------------------------------------------------------
(* The user-setting conversions, applied to DIDs and payloads *)

\* the longest payload handed to UserSettingPayload::decode
MaxPayloadLen == 17

\* indexes a caller can hold in the u8 fields; above 15 they leave the nibble
Indexes == 0..15 \cup {16, 255}

UserSettingDids ==
    {UserSettingDid("Count", 0, 0)}
    \cup {UserSettingDid(v, i, 0) : v \in {"Info", "ReadState", "WriteInput"}, i \in Indexes}
    \cup {UserSettingDid("Enum", i, e) : i \in Indexes, e \in Indexes}

\* "ABC.."
Letters(n) == [i \in 1..n |-> 64 + i]

PayloadDatas ==
    {Letters(n) : n \in 0..MaxPayloadLen}
    \cup {[Letters(12) EXCEPT ![11] = k, ![12] = e] : k \in 0..3, e \in {0, 1}}

PayloadIdents ==
    {UserSettingDid("Count", 0, 0), UserSettingDid("Info", 1, 0),
     UserSettingDid("ReadState", 2, 0), UserSettingDid("Enum", 3, 4),
     UserSettingDid("WriteInput", 0, 0), UserSettingDid("WriteInput", 15, 0)}

\* payloads handed to encode; an Input's bytes past len are zero or not
Payloads ==
    {[v |-> "Count", count |-> c] : c \in {0, 255}}
    \cup {[v |-> "Info", name |-> Letters(10), editable |-> e, kind |-> k] :
             e \in Bools, k \in {"Integer", "Selection", "Scaled"}}
    \cup {[v |-> "State", raw |-> Letters(16)], [v |-> "Enum", name |-> Letters(8)]}
    \cup {[v |-> "Input", len |-> n, bytes |-> Letters(n) \o Zeros(8 - n)] : n \in 0..8}
    \cup {[v |-> "Input", len |-> n, bytes |-> Letters(8)] : n \in 0..8}

\* to_did, then try_from of the DID
ToDid ==
    /\ callee = "-"
    /\ \E d \in UserSettingDids :
          /\ callee' = "to_did"
          /\ input' = d
          /\ output' = [did |-> to_did(d), back |-> UserSettingDid_try_from(to_did(d))]
    /\ UNCHANGED <<isotpVars, udsVars, toolVars>>

\* try_from of any u16
TryFromDid ==
    /\ callee = "-"
    /\ \E did \in 0..65535 :
          /\ callee' = "UserSettingDid::try_from"
          /\ input' = did
          /\ output' = UserSettingDid_try_from(did)
    /\ UNCHANGED <<isotpVars, udsVars, toolVars>>

\* UserSettingPayload::decode of received data
PayloadDecode ==
    /\ callee = "-"
    /\ \E ident \in PayloadIdents, data \in PayloadDatas :
          /\ callee' = "UserSettingPayload::decode"
          /\ input' = [ident |-> ident, data |-> data]
          /\ output' = UserSettingPayload_decode(ident, data)
    /\ UNCHANGED <<isotpVars, udsVars, toolVars>>

\* UserSettingPayload::encode, then decode of the bytes written
PayloadEncode ==
    /\ callee = "-"
    /\ \E p \in Payloads, buf_len \in {0, 7, 16} :
          LET w == UserSettingPayload_encode(p, buf_len)
              ident == CASE p.v = "Count" -> UserSettingDid("Count", 0, 0)
                         [] p.v = "Info" -> UserSettingDid("Info", 0, 0)
                         [] p.v = "State" -> UserSettingDid("ReadState", 0, 0)
                         [] p.v = "Enum" -> UserSettingDid("Enum", 0, 0)
                         [] p.v = "Input" -> UserSettingDid("WriteInput", 0, 0)
          IN  /\ callee' = "UserSettingPayload::encode"
              /\ input' = [payload |-> p, buf_len |-> buf_len]
              /\ output' = [written |-> w,
                            back |-> IF w.ok THEN UserSettingPayload_decode(ident, w.value)
                                     ELSE w]
    /\ UNCHANGED <<isotpVars, udsVars, toolVars>>

InitSet == IsoTpIdle /\ UdsIdle /\ PureIdle /\ ToolIdle

NextSet == ToDid \/ TryFromDid \/ PayloadDecode \/ PayloadEncode

SpecSet == InitSet /\ [][NextSet]_vars

\* the domain of C21
InDidDomain(d) ==
    \/ d.v = "Count"
    \/ d.v \in {"Info", "ReadState", "WriteInput"} /\ d.index \in 0..15
    \/ d.v = "Enum" /\ d.index \in 0..10 /\ d.enum_index \in 0..15

(* C21: for Count, Info, ReadState, WriteInput with index in 0..=15 and Enum with index
   in 0..=10 and enum_index in 0..=15, try_from(to_did(v)) = Ok(v); to_did is injective
   there. *)
C21_DidRoundTrip ==
    /\ callee = "to_did" /\ InDidDomain(input) => output.back = MOk(input)
    /\ callee = "to_did" /\ InDidDomain(input) =>
          \A b \in UserSettingDids : InDidDomain(b) /\ to_did(b) = output.did => b = input

\* the last Enum of the domain: 0x91FF
C21_Witness ==
    /\ callee = "to_did"
    /\ input = UserSettingDid("Enum", 10, 15)
    /\ output.did = 37375
    /\ output.back.ok

\* the DIDs the specification accepts
AcceptedDids ==
    {USER_SETTING_COUNT}
    \cup {USER_SETTING_INFO + i : i \in 0..15}
    \cup {USER_SETTING_VALUE + i : i \in 0..15}
    \cup {USER_SETTING_SAVE + i : i \in 0..15}
    \cup {USER_SETTING_LABEL + e + i * 16 : e \in 0..10, i \in 0..10}

(* C22: try_from(did) is Ok only for 0x9100, 0x9110+index, 0x9130+index, 0x9350+index
   and 0x9150 + enum_index + (index<<4) with enum_index in 0..=10, and an error for
   every other u16, Enum-range DIDs with enum_index nibble 11..=15 included. *)
C22_RejectsOutside ==
    callee = "UserSettingDid::try_from" => (output.ok <=> input \in AcceptedDids)

(* C23: decode for a WriteInput DID accepts every payload of length 1..=8 as
   Input{len, data zero-padded to 8}, rejects length 0 with TooShort and length > 8
   with TooLong{max: 8}; decode(encode(p)) = p for every Input with len in 1..=8. *)
C23_WriteInput ==
    /\ callee = "UserSettingPayload::decode" /\ input.ident.v = "WriteInput" =>
          LET n == Len(input.data)
          IN  IF n = 0 THEN output.err = "TooShort"
              ELSE IF n > 8 THEN output = MErr("TooLong", 8)
              ELSE output = MOk([v |-> "Input", len |-> n,
                                 bytes |-> input.data \o Zeros(8 - n)])
    /\ callee = "UserSettingPayload::encode" /\ input.payload.v = "Input"
          /\ input.payload.len \in 1..8 /\ output.written.ok =>
          /\ Len(output.written.value) = input.payload.len
          /\ output.back = MOk(input.payload)

----------------------------------------------------------------------------
(* The order of a session's requests *)

StartOps == {"DownloadSession::start", "UploadSession::start"}

FinishOps == {"DownloadSession::finish", "UploadSession::finish"}

\* a request follows a TransferExit or a refused Request*
RequestAfterEnd == phase \in {"exited", "requested"} /\ reqs' # <<>>

\* the next call is a start, its request a RequestDownload or RequestUpload
NewSession ==
    /\ op' \in StartOps
    /\ At(reqs'[1], 1) \in {SID_REQUEST_DOWNLOAD_REQ, SID_REQUEST_UPLOAD_REQ}

(* C28: the requests of a session are one RequestDownload/RequestUpload, then zero or
   more TransferData, then at most one TransferExit; no TransferData is sent unless the
   Request* transaction returned a positive response; after finish() the session
   issues no further request. *)
C28_RequestOrder ==
    /\ [](/\ phase # "bad"
          /\ Len(reqs) <= 1
          /\ (SentTransfer => phase = "transferring" /\ op \notin StartOps \cup FinishOps)
          /\ (phase \in {"started", "transferring"} <=> sess.kind # "none")
          /\ (op \in FinishOps => phase = "exited" /\ sess = NoSession))
    /\ [][RequestAfterEnd => NewSession]_vars

\* a download of two blocks, finished
C28_Witness ==
    /\ op = "DownloadSession::finish"
    /\ phase = "exited"
    /\ acked = 2
    /\ wire # <<>>

----------------------------------------------------------------------------
(* diag/solo.rs: LogEntryIterator *)

\* the records a log may hold
MaxRecords == 3

\* LogEntryIterator::new
LogEntryIterator_new(data) == [data |-> data, offset |-> 0, current_kind |-> 0]

\* entry.iter().all(|&b| b == 0xFF) || entry.iter().all(|&b| b == 0x00)
IsSeparator(entry) ==
    \/ \A i \in 1..Len(entry) : entry[i] = 255
    \/ \A i \in 1..Len(entry) : entry[i] = 0

EmittedKind_Next(current_kind, entry) == At(entry, 10)

\* let kind = self.current_kind, taken before current_kind is replaced
EmittedKind(current_kind, entry) == current_kind

\* LogEntryIterator::next: the iterator after the call and what it returned
\* (<<entry>> for Some(entry), <<>> for None)
RECURSIVE LogEntryIterator_next(_)
LogEntryIterator_next(i) ==
    IF i.offset + 12 <= Len(i.data)
    THEN LET entry == Slice(i.data, i.offset, i.offset + 12)
             after == [i EXCEPT !.offset = i.offset + 12, !.current_kind = At(entry, 10)]
         IN  IF IsSeparator(entry) THEN LogEntryIterator_next(after)
             ELSE [it |-> after,
                   item |-> <<[kind |-> EmittedKind(i.current_kind, entry),
                               payload |-> Slice(entry, 0, 8)]>>]
    ELSE [it |-> i, item |-> <<>>]

\* 12-byte records: the two separators, entries, and two near-separators
LogRecords ==
    {[i \in 1..12 |-> 255], [i \in 1..12 |-> 0],
     <<1, 2, 3, 4, 5, 6, 7, 8, 0, 0, 7, 0>>,
     <<17, 18, 19, 20, 21, 22, 23, 24, 9, 9, 255, 9>>,
     <<0, 0, 0, 0, 0, 0, 0, 0, 0, 0, 9, 0>>,
     <<255, 255, 255, 255, 255, 255, 255, 255, 255, 255, 255, 0>>}

RECURSIVE LogsOf(_)
LogsOf(n) ==
    IF n = 0 THEN {<<>>}
    ELSE LogsOf(n - 1) \cup {l \o r : l \in {x \in LogsOf(n - 1) : Len(x) = 12 * (n - 1)},
                                      r \in LogRecords}

\* logs of up to MaxRecords records, with or without a partial record after them
LogDatas == {l \o t : l \in LogsOf(MaxRecords), t \in {<<>>, <<1, 0, 255, 0, 0>>, Zeros(11)}}

\* LogEntryIterator::new on a log
LogNew ==
    /\ itret = "-"
    /\ \E data \in LogDatas : it' = LogEntryIterator_new(data)
    /\ itret' = "new"
    /\ UNCHANGED <<items, dl, isotpVars, udsVars, pureVars>>

\* one call of next()
LogNext ==
    /\ itret # "-"
    /\ LET r == LogEntryIterator_next(it)
       IN  /\ it' = r.it
           /\ items' = items \o r.item
           /\ itret' = IF r.item = <<>> THEN "None" ELSE "Some"
    /\ UNCHANGED <<dl, isotpVars, udsVars, pureVars>>

InitLog == IsoTpIdle /\ UdsIdle /\ PureIdle /\ ToolIdle

NextLog == LogNew \/ LogNext

\* the caller iterates until None
SpecLog == InitLog /\ [][NextLog]_vars /\ WF_vars(NextLog)

\* record k (from 0) of the data
RecordAt(data, k) == SubSeq(data, 12 * k + 1, 12 * k + 12)

\* the entry of record k: its first 8 bytes, with byte 10 of the record before it
EntryOf(data, k) ==
    [kind |-> IF k = 0 THEN 0 ELSE At(RecordAt(data, k - 1), 10),
     payload |-> SubSeq(RecordAt(data, k), 1, 8)]

\* the entries of the first n records that are no separators, in order
RECURSIVE EntriesOf(_, _)
EntriesOf(data, n) ==
    IF n = 0 THEN <<>>
    ELSE EntriesOf(data, n - 1)
         \o (IF RecordAt(data, n - 1) \in {[i \in 1..12 |-> 255], [i \in 1..12 |-> 0]}
             THEN <<>> ELSE <<EntryOf(data, n - 1)>>)

(* C24: LogEntryIterator visits the complete 12-byte records in order and terminates,
   ignoring a trailing partial record; it yields one LogEntry for each record that is
   neither all-0xFF nor all-0x00, with payload = bytes 0..8 of the record and
   kind = byte 10 of the record before it (separator or not), 0x00 for the first. *)
C24_LogEntries ==
    /\ [](itret # "-" =>
            /\ it.offset % 12 = 0
            /\ it.offset <= Len(it.data)
            /\ items = EntriesOf(it.data, it.offset \div 12)
            /\ (itret = "Some" => ~IsSeparator(RecordAt(it.data, it.offset \div 12 - 1)))
            /\ (itret = "None" => it.offset = 12 * (Len(it.data) \div 12)))
    /\ <>(itret = "None")

\* a separator, an entry, an entry and a partial record: both entries yielded, the
\* first with the separator's byte 10, the second with the first entry's
C24_Witness ==
    /\ itret = "None"
    /\ Len(it.data) = 41
    /\ items = <<[kind |-> 255, payload |-> <<1, 2, 3, 4, 5, 6, 7, 8>>],
                 [kind |-> 7, payload |-> <<0, 0, 0, 0, 0, 0, 0, 0>>]>>

----------------------------------------------------------------------------
(* diag/solo.rs: LogDecryptor.
   seed is a u64 and timestamp a u32; the model keeps such a number as its bytes,
   least significant first, and computes on the bytes. *)

\* the longest byte sequence decrypted: the key material has 24 bytes
MaxStream == 26

\* LCG_MULT = 0x10A860C1
LCG_MULT == <<193, 96, 168, 16>>

\* LCG_MOD = 0xFFFFFFFB
LCG_MOD == <<251, 255, 255, 255>>

\* a ^ b on bytes
RECURSIVE BitXor(_, _)
BitXor(a, b) ==
    IF a = 0 THEN b
    ELSE IF b = 0 THEN a
    ELSE ((a + b) % 2) + 2 * BitXor(a \div 2, b \div 2)

\* the bytes of the number whose k-th byte (from 0) would be cols[k + 1], carries done
RECURSIVE Carried(_, _)
Carried(cols, carry) ==
    IF cols = <<>> THEN (IF carry = 0 THEN <<>> ELSE <<carry % 256>> \o Carried(<<>>, carry \div 256))
    ELSE <<(Head(cols) + carry) % 256>> \o Carried(Tail(cols), (Head(cols) + carry) \div 256)

\* column k of the long multiplication of a and b
RECURSIVE MulColumn(_, _, _, _)
MulColumn(a, b, k, i) ==
    IF i > Len(a) THEN 0
    ELSE (IF k - i + 1 \in 1..Len(b) THEN a[i] * b[k - i + 1] ELSE 0) + MulColumn(a, b, k, i + 1)

\* a * b, as u64: 8 bytes
wrapping_mul(a, b) ==
    LET p == Carried([k \in 1..(Len(a) + Len(b) - 1) |-> MulColumn(a, b, k, 1)], 0)
    IN  SubSeq(p \o Zeros(8), 1, 8)

\* a + b of two byte sequences
Added(a, b) ==
    LET n == Max(Len(a), Len(b))
        x == a \o Zeros(n - Len(a))
        y == b \o Zeros(n - Len(b))
    IN  Carried([k \in 1..n |-> x[k] + y[k]], 0)

\* x without its most significant zero bytes
RECURSIVE Trimmed(_)
Trimmed(x) == IF x # <<>> /\ x[Len(x)] = 0 THEN Trimmed(SubSeq(x, 1, Len(x) - 1)) ELSE x

\* x % LCG_MOD, by 2^32 = 5 (mod 2^32 - 5); the result as 4 bytes
RECURSIVE ModLcg(_)
ModLcg(x) ==
    LET t == Trimmed(x)
    IN  IF Len(t) > 4
        THEN ModLcg(Added(SubSeq(t, 1, 4), wrapping_mul(SubSeq(t, 5, Len(t)), <<5>>)))
        ELSE IF Len(t) = 4 /\ t[4] = 255 /\ t[3] = 255 /\ t[2] = 255 /\ t[1] >= 251
        THEN <<t[1] - 251, 0, 0, 0>>
        ELSE t \o Zeros(4 - Len(t))

\* the stand-ins for DesEncryptor::encrypt_block, which the caller supplies
DesEncryptors == {"reversed", "plus37", "keyed"}

encrypt_block(des, block) ==
    CASE des = "reversed" -> [i \in 1..8 |-> block[9 - i]]
      [] des = "plus37" -> [i \in 1..8 |-> (block[i] + 37) % 256]
      [] des = "keyed" -> [i \in 1..8 |-> BitXor(block[i], (i * 29 + block[1 + (i % 8)]) % 256)]

\* LogDecryptor::new; timestamp as its 4 bytes
LogDecryptor_new(des, device_id, timestamp) ==
    [key_material |->
        <<encrypt_block(des, Slice(device_id, 0, 8)),
          encrypt_block(des, Slice(device_id, 8, 12) \o timestamp),
          encrypt_block(des, <<218, 101, 32, 51, 200, 87, 64, 211>>)>>,
     seed |-> timestamp,
     pos |-> 0]

\* (self.seed & 0xFF) as u8
KeystreamByte(seed) == seed[1]

XorInto_Added(b, key_byte, keystream_byte) == (b + BitXor(key_byte, keystream_byte)) % 256

\* *b ^= key_byte ^ keystream_byte
XorInto(b, key_byte, keystream_byte) == BitXor(b, BitXor(key_byte, keystream_byte))

\* LogDecryptor::decrypt: the decryptor after the call and the buffer
RECURSIVE decrypt(_, _)
decrypt(d, buf) ==
    IF buf = <<>> THEN [dec |-> d, buf |-> <<>>]
    ELSE LET key_byte == At(At(d.key_material, d.pos \div 8), d.pos % 8)
             seed == ModLcg(wrapping_mul(d.seed, LCG_MULT))
             b == XorInto(Head(buf), key_byte, KeystreamByte(seed))
             rest == decrypt([d EXCEPT !.seed = seed,
                                       !.pos = IF d.pos + 1 = 24 THEN 0 ELSE d.pos + 1],
                             Tail(buf))
         IN  [dec |-> rest.dec, buf |-> <<b>> \o rest.buf]

DeviceIds ==
    {<<80, 255, 104, 6, 72, 132, 83, 73, 23, 84, 8, 135>>, Zeros(12)}

\* u32 timestamps, as bytes: 0, 1, 0x0002c1c9, 0xFFFFFFFF
Timestamps == {<<0, 0, 0, 0>>, <<1, 0, 0, 0>>, <<201, 193, 2, 0>>, <<255, 255, 255, 255>>}

Streams ==
    {[i \in 1..n |-> (i * 83) % 256] : n \in 0..MaxStream}
    \cup {Zeros(8), [i \in 1..12 |-> 255]}

\* decrypt from the start of the keystream, and the result once more from the start
DecryptTwice ==
    /\ callee = "-"
    /\ \E des \in DesEncryptors, device_id \in DeviceIds, timestamp \in Timestamps,
          s \in Streams :
          LET once == decrypt(LogDecryptor_new(des, device_id, timestamp), s)
              twice == decrypt(LogDecryptor_new(des, device_id, timestamp), once.buf)
          IN  /\ callee' = "LogDecryptor::decrypt"
              /\ input' = [des |-> des, device_id |-> device_id, timestamp |-> timestamp,
                           s |-> s]
              /\ output' = [once |-> once, twice |-> twice]
    /\ UNCHANGED <<isotpVars, udsVars, toolVars>>

InitDec == IsoTpIdle /\ UdsIdle /\ PureIdle /\ ToolIdle

NextDec == DecryptTwice

SpecDec == InitDec /\ [][NextDec]_vars

(* C25: for any DES key, 12-byte device id, timestamp and byte sequence s, decrypting s
   and then decrypting the result, each time from the start of the keystream built
   from the same key, device id and timestamp, returns s. *)
C25_DecryptTwice ==
    callee = "LogDecryptor::decrypt" =>
        /\ Len(output.once.buf) = Len(input.s)
        /\ output.twice.buf = input.s

\* five zero-free steps of the generator from timestamp 1: the seed is 0x4111961A
C25_Witness ==
    /\ callee = "LogDecryptor::decrypt"
    /\ input.timestamp = <<1, 0, 0, 0>>
    /\ Len(input.s) = 5
    /\ output.once.dec.seed = <<26, 150, 17, 65>>
    /\ output.twice.buf = input.s
    /\ output.once.buf # input.s

----------------------------------------------------------------------------
(* C26: every on_frame call that returns an error (LengthMismatch, UnknownPciType,
   UnexpectedFrameType, SequenceError, Overflow) leaves the reassembler as it was:
   state, expected_len, used, next_sn and the buffered bytes are unchanged. *)
C26_ErrorKeepsState ==
    Called /\ IsErr(result) =>
        /\ rx = pre
        /\ payload(rx) = payload(pre)

\* a Consecutive Frame out of sequence while four bytes or more are buffered
C26_Witness ==
    /\ Called
    /\ result.kind = "SequenceError"
    /\ pre.state = "Receiving"
    /\ pre.used >= 4
    /\ rx.state = "Receiving"
    /\ rx.used = pre.used

(* C27: a valid Single Frame or First Frame arriving while a multi-frame message is
   being received discards the partial message: afterwards used counts only the data
   bytes of the new frame, payload() starts with those bytes, and expected_len and
   next_sn are those of the new message; reset() returns the machine to Idle with an
   empty payload from any state. *)
C27_NewMessageDiscards ==
    /\ (Called /\ pre.state = "Receiving" /\ IsPci(frame, 0) /\ ~IsErr(result)) =>
          /\ rx.used = LowNibble(frame)
          /\ payload(rx) = Slice(frame.data, 1, 1 + LowNibble(frame))
          /\ rx.state = "Idle"
          /\ rx.expected_len = <<>>
          /\ rx.next_sn = 0
    /\ (Called /\ pre.state = "Receiving" /\ IsPci(frame, 1) /\ ~IsErr(result)) =>
          LET n == Min(frame.len - 2, Min(DeclaredTotal(frame), 6))
          IN  /\ rx.used = n
              /\ payload(rx) = Slice(frame.data, 2, 2 + n)
              /\ rx.next_sn = 1
              /\ IF n = DeclaredTotal(frame)
                 THEN rx.state = "Idle" /\ rx.expected_len = <<>>
                 ELSE rx.state = "Receiving" /\ rx.expected_len = <<DeclaredTotal(frame)>>
    /\ (~Called /\ ncalls > 0) =>
          /\ rx.state = "Idle"
          /\ payload(rx) = <<>>
          /\ rx.expected_len = <<>>
          /\ rx.next_sn = 0

\* a First Frame of a new message while another message is half received
C27_Witness ==
    /\ Called /\ IsPci(frame, 1) /\ ~IsErr(result)
    /\ pre.state = "Receiving"
    /\ pre.used > 6
    /\ rx.used = 6
    /\ rx.state = "Receiving"
    /\ rx.expected_len # pre.expected_len

----------------------------------------------------------------------------
(* solodiag: download(), the firmware download loop, with a device that answers
   every request positively *)

\* the longest firmware image: more than 256 blocks of one byte
MaxImage == 260

\* let mut tx_buf = vec![0u8; 4096]
DlTxCap == 4096

\* let mut rx_buf = vec![0u8; 256]
DlRxCap == 256

ImageLens == {0, 1, 7, MaxImage}

Image(n) == [i \in 1..n |-> (i * 7) % 256]

\* the first byte of the RequestDownload response: any u8
ReportedBlockLens == {0, 1, 2, 3, 7, 255}

\* DownloadSession::start, max_block_len(), let mut offset = 0
DownloadBegin ==
    /\ dl.at = "-"
    /\ \E n \in ImageLens, m \in ReportedBlockLens, address \in Addresses :
          LET rep == TransportOk(<<0, SID_REQUEST_DOWNLOAD_RESP, m, 16>>)
              o == DownloadSession_start(address, n, DlTxCap, DlRxCap, rep)
          IN  /\ Record("DownloadSession::start", <<address, n>>, o, rep)
              /\ dl' = IF o.ret.res = UOk
                       THEN [dl EXCEPT !.at = "while", !.firmware_data = Image(n),
                                       !.max_block_len = o.sess.max_block_len]
                       ELSE [dl EXCEPT !.at = "failed"]
    /\ acked' = 0
    /\ UNCHANGED <<it, items, itret, isotpVars, pureVars>>

\* one turn of while offset < firmware_data.len()
DownloadBlock ==
    /\ dl.at = "while"
    /\ dl.offset < Len(dl.firmware_data)
    /\ LET remaining == Len(dl.firmware_data) - dl.offset
           block_size == Min(remaining, dl.max_block_len)
           block_data == Slice(dl.firmware_data, dl.offset, dl.offset + block_size)
           rep == TransportOk(<<0, SID_TRANSFER_DATA_RESP, sess.next_block>>)
           o == send_block(sess, block_data, rep)
       IN  /\ Record("send_block", block_data, o, rep)
           /\ dl' = IF o.ret.res = UOk
                    THEN [dl EXCEPT !.offset = dl.offset + block_size,
                                    !.block_size = block_size]
                    ELSE [dl EXCEPT !.at = "failed"]
    /\ UNCHANGED <<acked, it, items, itret, isotpVars, pureVars>>

\* session.finish() after the loop
DownloadFinish ==
    /\ dl.at = "while"
    /\ ~(dl.offset < Len(dl.firmware_data))
    /\ LET rep == TransportOk(<<0, SID_TRANSFER_EXIT_RESP>>)
           o == finish(sess, rep)
       IN  /\ Record("DownloadSession::finish", <<>>, o, rep)
           /\ dl' = [dl EXCEPT !.at = IF o.ret.res = UOk THEN "done" ELSE "failed",
                               !.exits = dl.exits + 1]
    /\ UNCHANGED <<acked, it, items, itret, isotpVars, pureVars>>

InitLoop == IsoTpIdle /\ UdsIdle /\ PureIdle /\ ToolIdle

NextLoop == DownloadBegin \/ DownloadBlock \/ DownloadFinish

\* download() runs on: each of its statements is taken when it is the next one
SpecLoop == InitLoop /\ [][NextLoop]_vars /\ WF_vars(NextLoop)

\* the block just sent is the next piece of the image, of at most max_block_len bytes
BlockInOrder ==
    op = "send_block" /\ dl.at = "while" =>
        /\ arg = Slice(dl.firmware_data, dl.offset - dl.block_size, dl.offset)
        /\ Len(arg) <= dl.max_block_len
        /\ wire = <<0, SID_TRANSFER_DATA_REQ, spre.next_block>> \o arg

\* a block starts where the one before it ended
BlocksConsecutive ==
    dl.at = "while" /\ dl'.at = "while" => dl'.offset - dl'.block_size = dl.offset

(* C29: the firmware download loop terminates for every firmware image and every
   max_block_len the device can report, provided every transaction succeeds: it sends
   the image as consecutive, non-overlapping blocks of at most max_block_len bytes that
   cover the whole image in order, then sends exactly one TransferExit. *)
C29_DownloadLoop ==
    /\ [](/\ dl.at # "failed"
          /\ BlockInOrder
          /\ dl.exits <= 1
          /\ (dl.at = "done" => dl.offset = Len(dl.firmware_data) /\ dl.exits = 1))
    /\ [][BlocksConsecutive]_vars
    /\ <>(dl.at = "done")

----------------------------------------------------------------------------
(* diag/mod.rs: Stm32Crc32, and solodiag's stm32_crc32_read. A u32 is the sequence of
   its four bytes, least significant first. *)

\* the longest byte stream fed to the checksum
MaxCrcLen == 5

\* const POLY: u32 = 0x04C1_1DB7
POLY == <<183, 29, 193, 4>>

\* Self { crc: 0xFFFF_FFFF }
Stm32Crc32_new == [crc |-> <<255, 255, 255, 255>>]

\* a ^ b on u32
Xor32(a, b) == <<BitXor(a[1], b[1]), BitXor(a[2], b[2]), BitXor(a[3], b[3]), BitXor(a[4], b[4])>>

\* a << 1 on u32
Shl1(a) ==
    <<(2 * a[1]) % 256,
      ((2 * a[2]) % 256) + (a[1] \div 128),
      ((2 * a[3]) % 256) + (a[2] \div 128),
      ((2 * a[4]) % 256) + (a[3] \div 128)>>

\* word |= (byte as u32) << (i * 8), over the bytes of one chunk of at most 4
WordOf(chunk) == SubSeq(chunk \o <<0, 0, 0, 0>>, 1, 4)

\* for _ in 0..32 { crc = if crc & 0x8000_0000 != 0 { (crc << 1) ^ POLY } else { crc << 1 } }
RECURSIVE Shifted(_, _)
Shifted(crc, n) ==
    IF n = 0 THEN crc
    ELSE IF crc[4] >= 128 THEN Shifted(Xor32(Shl1(crc), POLY), n - 1)
    ELSE Shifted(Shl1(crc), n - 1)

\* Stm32Crc32::append: for chunk in data.chunks(4)
RECURSIVE append(_, _)
append(c, data) ==
    IF data = <<>> THEN c
    ELSE LET n == Min(4, Len(data))
             word == WordOf(Slice(data, 0, n))
         IN  append([crc |-> Shifted(Xor32(c.crc, word), 32)], Slice(data, n, Len(data)))

checksum(c) == c.crc

\* Stm32Crc32::stm32_crc32
stm32_crc32(data) == checksum(append(Stm32Crc32_new, data))

\* stm32_crc32_read: the reader returns the stream in the pieces reads, then 0
RECURSIVE ReadLoop(_, _)
ReadLoop(c, reads) ==
    IF reads = <<>> THEN c
    ELSE ReadLoop(append(c, Head(reads)), Tail(reads))

stm32_crc32_read(reads) == checksum(ReadLoop(Stm32Crc32_new, reads))

CrcBytes == {1, 200}

CrcStreams == UNION {[1..n -> CrcBytes] : n \in 0..MaxCrcLen}

\* the pieces a reader can return for the stream s: two cuts at arbitrary positions,
\* no piece empty (an empty read ends the loop)
ReadsOf(s) ==
    {SelectSeq(<<Slice(s, 0, a), Slice(s, a, b), Slice(s, b, Len(s))>>, LAMBDA p : p # <<>>) :
        a \in 0..Len(s), b \in 0..Len(s)} \ {<<>>, <<<<>>>>}

Concat(reads) ==
    IF reads = <<>> THEN <<>>
    ELSE IF Len(reads) = 1 THEN reads[1]
    ELSE IF Len(reads) = 2 THEN reads[1] \o reads[2]
    ELSE reads[1] \o reads[2] \o reads[3]

CrcRead ==
    /\ callee = "-"
    /\ \E s \in CrcStreams : \E reads \in ReadsOf(s) \cup {<<>>} :
          /\ Concat(reads) = s
          /\ callee' = "stm32_crc32_read"
          /\ input' = reads
          /\ output' = stm32_crc32_read(reads)
    /\ UNCHANGED <<isotpVars, udsVars, toolVars>>

CrcOneShot ==
    /\ callee = "-"
    /\ \E s \in CrcStreams :
          /\ callee' = "stm32_crc32"
          /\ input' = s
          /\ output' = stm32_crc32(s)
    /\ UNCHANGED <<isotpVars, udsVars, toolVars>>

InitCrc == IsoTpIdle /\ UdsIdle /\ PureIdle /\ ToolIdle

NextCrc == CrcRead \/ CrcOneShot

SpecCrc == InitCrc /\ [][NextCrc]_vars

(* C30: feeding a byte stream to Stm32Crc32::append in several calls, with chunk
   boundaries at arbitrary positions, yields the same checksum as the one-shot
   stm32_crc32 over the concatenated stream; the one-shot of the empty input is
   0xFFFF_FFFF. *)
C30_ChunkedCrc ==
    /\ callee = "stm32_crc32_read" => output = stm32_crc32(Concat(input))
    /\ callee = "stm32_crc32" /\ input = <<>> => output = <<255, 255, 255, 255>>

====
